---- MODULE Spec2Model ----
(***************************************************************************)
(* Cesium3DTilesetTraversal.selectTiles: the per-frame tile selection of a *)
(* 3D tileset (base, skip-only and base+skip traversals).                  *)
(*                                                                         *)
(* A frame is run as a sequence of steps: the entry of selectTiles, one    *)
(* step per iteration of the executeTraversal loop, one step per iteration *)
(* of the traverseAndSelect loop, and the return.  The calls made inside   *)
(* an iteration (updateAndPushChildren, executeEmptyTraversal,             *)
(* selectDesiredTile, selectDescendants, loadTile, touchTile, selectTile)  *)
(* are operators on a record w holding the mutable state they work on.     *)
(* Between two frames requested content arrives and loaded content expires.*)
(*                                                                         *)
(* Not modelled: tileset._statistics, the min/max priority bookkeeping of  *)
(* updateMinMaxPriority, the heatmap and the high-water marks of the       *)
(* scratch stacks; no modelled branch reads them.                          *)
(***************************************************************************)
EXTENDS Integers, Sequences, FiniteSets, TLC

\* ------------------------------------------------------------------ bounds
NumTiles == 4
MaxFrame == 3
MaxDeviations == 1
MaxExpiries == 1
MaxMoves == 1
MaxTime == 15
MaxStep == 3
MaxSamples == 5

\* Number.MAX_VALUE, the start value of the minimum search
MAX_VALUE == 1000

\* how far below its root selectDescendants looks
descendantSelectionDepth == 2

Tiles == 1..NumTiles
NoTile == 0
Root == 1

VARIABLES
    parent,               \* tile.parent (NoTile for the root)
    refine,               \* tile.refine: "ADD" or "REPLACE"
    kind,                 \* "content", "empty" (hasEmptyContent), "tileset" (hasTilesetContent)
    options,              \* the tileset's configuration fields
    contentState,         \* per tile: "UNLOADED", "READY", "EXPIRED"
    expiries,             \* how many times content has expired in this run
    frameState,           \* frameNumber and what the camera sees of each tile
    tile,                 \* per tile: the fields the traversal writes
    children,             \* tile.children, an array sorted in place by the traversal
    selectedTiles,        \* tileset._selectedTiles
    selectedTilesToStyle, \* tileset._selectedTilesToStyle
    requestedTiles,       \* tileset._requestedTiles
    emptyTiles,           \* tileset._emptyTiles
    hasMixedContent,      \* tileset._hasMixedContent
    cacheTouches,         \* the tiles passed to tileset._cache.touch this frame, in order
    calls,                \* this frame's calls of selectDesiredTile / selectDescendants / executeEmptyTraversal
    stack,                \* traversal.stack, then selectionTraversal.stack
    ancestorStack,        \* selectionTraversal.ancestorStack
    lastAncestor,         \* traverseAndSelect's local
    descendantStack,      \* descendantTraversal.stack
    emptyStack,           \* emptyTraversal.stack
    debugFreezeFrame,     \* tileset.debugFreezeFrame
    moves,                \* how many times the camera has moved in this run
    lastSelected,         \* the tiles selected by the call before this one, when nothing changed since
    returnValue,          \* what the last selectTiles call returned
    pc,
    monitor,              \* the FrameRateMonitor's fields
    hidden,               \* document[monitor._hiddenPropertyName]
    now,                  \* what getTimestamp() returns, in ticks
    raised                \* the events raised so far, in order

vars == <<parent, refine, kind, options, contentState, expiries, frameState, tile, children,
          selectedTiles, selectedTilesToStyle, requestedTiles, emptyTiles,
          hasMixedContent, cacheTouches, calls, stack, ancestorStack,
          lastAncestor, descendantStack, emptyStack, debugFreezeFrame, moves,
          lastSelected, returnValue, pc, monitor, hidden, now, raised>>

\* ------------------------------------------------------------ tree helpers
RECURSIVE Depth(_)
Depth(t) == IF parent[t] = NoTile THEN 0 ELSE 1 + Depth(parent[t])

RECURSIVE Ancestors(_)
Ancestors(t) == IF parent[t] = NoTile THEN {} ELSE {parent[t]} \cup Ancestors(parent[t])

ChildSet(t) == {c \in Tiles : parent[c] = t}

RECURSIVE SeqOfSet(_)
SeqOfSet(S) == IF S = {} THEN <<>>
               ELSE LET m == CHOOSE x \in S : \A y \in S : x <= y
                    IN <<m>> \o SeqOfSet(S \ {m})

Range(s) == {s[i] : i \in 1..Len(s)}

Top(s) == s[Len(s)]
Pop(s) == SubSeq(s, 1, Len(s) - 1)

\* ----------------------------------------------- the tile's content getters
hasEmptyContent(t) == kind[t] = "empty" \/ kind[t] = "tileset"

contentUnloaded(t) == contentState[t] = "UNLOADED"
contentExpired(t) == contentState[t] = "EXPIRED"
\* Expired content stays renderable until its replacement arrives.
contentAvailable(t) == kind[t] = "content" /\ contentState[t] \in {"READY", "EXPIRED"}

hasUnloadedContent(t) == ~hasEmptyContent(t) /\ contentUnloaded(t)

\* tile.contentVisibility(frameState) !== Intersect.OUTSIDE
contentNotOutside(t) == ~frameState.camera[t].contentOutside

skipLevelOfDetail == options.skipLevelOfDetail

\* ------------------------------------------------------- the mutable state
World == [tile |-> tile, children |-> children,
          selectedTiles |-> selectedTiles,
          selectedTilesToStyle |-> selectedTilesToStyle,
          requestedTiles |-> requestedTiles,
          emptyTiles |-> emptyTiles,
          hasMixedContent |-> hasMixedContent,
          cacheTouches |-> cacheTouches,
          calls |-> calls,
          descendantStack |-> descendantStack,
          emptyStack |-> emptyStack]

Commit(w) ==
    /\ tile' = w.tile
    /\ children' = w.children
    /\ selectedTiles' = w.selectedTiles
    /\ selectedTilesToStyle' = w.selectedTilesToStyle
    /\ requestedTiles' = w.requestedTiles
    /\ emptyTiles' = w.emptyTiles
    /\ hasMixedContent' = w.hasMixedContent
    /\ cacheTouches' = w.cacheTouches
    /\ calls' = w.calls
    /\ descendantStack' = w.descendantStack
    /\ emptyStack' = w.emptyStack

NoCalls == [selectDesiredTile |-> {}, selectDescendants |-> {},
            emptyTraversalTrue |-> {}, emptyTraversalFalse |-> {},
            \* <<root, child>>: selectDescendants(root) has looked at child
            descendantsExamined |-> {},
            \* how many times tile.updateVisibility has run on each tile
            updateVisibility |-> [t \in Tiles |-> 0]]

isVisible(w, t) == w.tile[t].visible /\ w.tile[t].inRequestVolume

\* an addEmptyTile that leaves emptyTiles alone
addEmptyTileNever(w, t) == w

addEmptyTile(w, t) == [w EXCEPT !.emptyTiles = Append(@, t)]

\* a selectTile that appends only the tiles that were not selected last frame
selectTileWhenNew(w, t) ==
    IF contentNotOutside(t) /\ w.tile[t].selectedFrame < frameState.frameNumber - 1
    THEN [w EXCEPT !.tile[t].selectedFrame = frameState.frameNumber,
                   !.selectedTilesToStyle = Append(@, t),
                   !.selectedTiles = Append(@, t)]
    ELSE w

\* a selectTile that restyles every tile it selects
selectTileRestyleAlways(w, t) ==
    IF contentNotOutside(t)
    THEN [w EXCEPT
            !.tile[t].featurePropertiesDirty = FALSE,
            !.tile[t].lastStyleTime = IF w.tile[t].featurePropertiesDirty THEN 0 ELSE @,
            !.tile[t].selectedFrame = frameState.frameNumber,
            !.selectedTilesToStyle = Append(@, t),
            !.selectedTiles = Append(@, t)]
    ELSE w

selectTile(w, t) ==
    IF contentNotOutside(t)
    THEN LET restyle == w.tile[t].featurePropertiesDirty
                        \/ w.tile[t].selectedFrame < frameState.frameNumber - 1
         IN [w EXCEPT
               !.tile[t].featurePropertiesDirty = FALSE,
               !.tile[t].lastStyleTime = IF w.tile[t].featurePropertiesDirty THEN 0 ELSE @,
               !.tile[t].selectedFrame = frameState.frameNumber,
               !.selectedTilesToStyle = IF restyle THEN Append(@, t) ELSE @,
               !.selectedTiles = Append(@, t)]
    ELSE w

\* touchTile without its _touchedFrame guard
touchTileEveryPass(w, t) ==
    [w EXCEPT !.cacheTouches = Append(@, t),
              !.tile[t].touchedFrame = frameState.frameNumber]

touchTile(w, t) ==
    IF w.tile[t].touchedFrame = frameState.frameNumber
    THEN w
    ELSE [w EXCEPT !.cacheTouches = Append(@, t),
                   !.tile[t].touchedFrame = frameState.frameNumber]

clamp(value, min, max) == IF value < min THEN min ELSE IF value > max THEN max ELSE value

getPriority(w, t) ==
    clamp(w.tile[t].centerZDepth - options.boundingRadius, 0, w.tile[t].centerZDepth)

\* loadTile without its test of the content's state
loadTileUnconditionally(w, t) ==
    [w EXCEPT !.tile[t].requestedFrame = frameState.frameNumber,
              !.requestedTiles = Append(@, t)]

loadTile(w, t) ==
    IF hasUnloadedContent(t) \/ contentExpired(t)
    THEN [w EXCEPT !.tile[t].requestedFrame = frameState.frameNumber,
                   !.requestedTiles = Append(@, t)]
    ELSE w

\* tile.updateVisibility(frameState): the camera's view of the tile is stored on it
tileUpdateVisibility(w, t) ==
    [w EXCEPT !.tile[t].visible = frameState.camera[t].visible,
              !.tile[t].inRequestVolume = frameState.camera[t].inRequestVolume,
              !.tile[t].screenSpaceError = frameState.camera[t].screenSpaceError,
              !.tile[t].distanceToCamera = frameState.camera[t].distanceToCamera,
              !.tile[t].centerZDepth = frameState.camera[t].centerZDepth,
              !.calls.updateVisibility[t] = @ + 1]

\* updateTile after tile.updateVisibility(frameState)
resetTile(w, t) ==
    [w EXCEPT !.tile[t].priorityDistance = getPriority(w, t),
              !.tile[t].priorityDistanceHolder = t,
              !.tile[t].wasMinChild = FALSE,
              !.tile[t].shouldSelect = FALSE,
              !.tile[t].finalResolution = TRUE]

updateTile(w, t) == resetTile(tileUpdateVisibility(w, t), t)

\* the links set to the parent whatever the state of its content
updateTileAncestorContentLinksToParent(w, t) ==
    [w EXCEPT !.tile[t].ancestorWithContent = parent[t],
              !.tile[t].ancestorWithContentAvailable = parent[t]]

\* the available link set from the parent alone, never handed down from it
updateTileAncestorContentLinksNotInherited(w, t) ==
    LET p == parent[t]
    IN IF p = NoTile
       THEN [w EXCEPT !.tile[t].ancestorWithContent = NoTile,
                      !.tile[t].ancestorWithContentAvailable = NoTile]
       ELSE LET hasContent == ~hasUnloadedContent(p)
                              \/ w.tile[p].requestedFrame = frameState.frameNumber
            IN [w EXCEPT
                  !.tile[t].ancestorWithContent =
                      IF hasContent THEN p ELSE w.tile[p].ancestorWithContent,
                  !.tile[t].ancestorWithContentAvailable =
                      IF contentAvailable(p) THEN p ELSE NoTile]

updateTileAncestorContentLinks(w, t) ==
    LET p == parent[t]
    IN IF p = NoTile
       THEN [w EXCEPT !.tile[t].ancestorWithContent = NoTile,
                      !.tile[t].ancestorWithContentAvailable = NoTile]
       ELSE LET hasContent == ~hasUnloadedContent(p)
                              \/ w.tile[p].requestedFrame = frameState.frameNumber
            IN [w EXCEPT
                  !.tile[t].ancestorWithContent =
                      IF hasContent THEN p ELSE w.tile[p].ancestorWithContent,
                  !.tile[t].ancestorWithContentAvailable =
                      IF contentAvailable(p) THEN p
                      ELSE w.tile[p].ancestorWithContentAvailable]

\* a skipping threshold that does not look at the depth
reachedSkippingThresholdAtAnyDepth(w, t) ==
    LET ancestor == w.tile[t].ancestorWithContent
    IN /\ ~options.immediatelyLoadDesiredLevelOfDetail
       /\ ancestor # NoTile
       /\ w.tile[t].screenSpaceError * options.skipScreenSpaceErrorFactor
             < w.tile[ancestor].screenSpaceError

reachedSkippingThreshold(w, t) ==
    LET ancestor == w.tile[t].ancestorWithContent
    IN /\ ~options.immediatelyLoadDesiredLevelOfDetail
       /\ ancestor # NoTile
       \* sse < ancestor.sse / factor, on integers
       /\ w.tile[t].screenSpaceError * options.skipScreenSpaceErrorFactor
             < w.tile[ancestor].screenSpaceError
       /\ Depth(t) > Depth(ancestor) + options.skipLevels

\* the comparator with its operands exchanged: nearest child first
sortChildrenNearestFirst(w, a, b) ==
    IF w.tile[b].distanceToCamera = 0 /\ w.tile[a].distanceToCamera = 0
    THEN w.tile[a].centerZDepth - w.tile[b].centerZDepth
    ELSE w.tile[a].distanceToCamera - w.tile[b].distanceToCamera

\* sortChildrenByDistanceToCamera(a, b): negative when a sorts before b
sortChildrenByDistanceToCamera(w, a, b) ==
    IF w.tile[b].distanceToCamera = 0 /\ w.tile[a].distanceToCamera = 0
    THEN w.tile[b].centerZDepth - w.tile[a].centerZDepth
    ELSE w.tile[b].distanceToCamera - w.tile[a].distanceToCamera

\* Array.prototype.sort with that comparator (stable)
RECURSIVE InsertSorted(_, _, _)
InsertSorted(w, s, x) ==
    IF s = <<>> THEN <<x>>
    ELSE IF sortChildrenByDistanceToCamera(w, x, Top(s)) < 0
         THEN Append(InsertSorted(w, Pop(s), x), Top(s))
         ELSE Append(s, x)

RECURSIVE SortChildren(_, _)
SortChildren(w, s) ==
    IF s = <<>> THEN <<>>
    ELSE InsertSorted(w, SortChildren(w, Pop(s)), Top(s))

canTraverse(w, t) ==
    IF Len(w.children[t]) = 0 THEN FALSE
    ELSE IF kind[t] = "tileset" THEN ~contentExpired(t)
    ELSE w.tile[t].screenSpaceError > options.maximumScreenSpaceError

inBaseTraversal(w, t, baseScreenSpaceError) ==
    IF ~skipLevelOfDetail THEN TRUE
    ELSE IF options.immediatelyLoadDesiredLevelOfDetail THEN FALSE
    ELSE IF w.tile[t].ancestorWithContent = NoTile THEN TRUE
    ELSE IF w.tile[t].screenSpaceError = 0
         THEN w.tile[parent[t]].screenSpaceError > baseScreenSpaceError
    ELSE w.tile[t].screenSpaceError > baseScreenSpaceError

\* ------------------------------------------------------- selectDescendants
\* a depth test that lets the descent go on whatever the depth
withinSelectionDepthAlways(child, root) == TRUE

\* child._depth - root._depth < descendantSelectionDepth
withinSelectionDepth(child, root) == Depth(child) - Depth(root) < descendantSelectionDepth

\* the body of the loop over the children: what it does with one child
selectDescendantsChild(w, root, child) ==
    IF isVisible(w, child)
    THEN IF contentAvailable(child)
         THEN selectTile(touchTile(updateTile(w, child), child), child)
         ELSE IF withinSelectionDepth(child, root)
              THEN [w EXCEPT !.descendantStack = Append(@, child)]
              ELSE w
    ELSE w

\* var child = children[i]: the loop reads the child
examineChild(w, root, child) ==
    [w EXCEPT !.calls.descendantsExamined = @ \cup {<<root, child>>}]

\* the loop over the children of t
RECURSIVE selectDescendantsChildren(_, _, _, _)
selectDescendantsChildren(w, root, t, i) ==
    IF i > Len(w.children[t]) THEN w
    ELSE selectDescendantsChildren(
             selectDescendantsChild(examineChild(w, root, w.children[t][i]),
                                    root, w.children[t][i]),
             root, t, i + 1)

RECURSIVE selectDescendantsLoop(_, _)
selectDescendantsLoop(w, root) ==
    IF w.descendantStack = <<>> THEN w
    ELSE selectDescendantsLoop(
             selectDescendantsChildren([w EXCEPT !.descendantStack = Pop(@)],
                                       root, Top(w.descendantStack), 1),
             root)

selectDescendants(w, root) ==
    selectDescendantsLoop(
        [w EXCEPT !.calls.selectDescendants = @ \cup {root},
                  !.descendantStack = Append(@, root)],
        root)

\* selectDesiredTile without its tests of contentAvailable
selectDesiredTileUnloaded(w0, t) ==
    LET w == [w0 EXCEPT !.calls.selectDesiredTile = @ \cup {t}]
    IN IF ~skipLevelOfDetail
       THEN selectTile(w, t)
       ELSE [w EXCEPT !.tile[t].shouldSelect = TRUE]

selectDesiredTile(w0, t) ==
    LET w == [w0 EXCEPT !.calls.selectDesiredTile = @ \cup {t}]
    IN IF ~skipLevelOfDetail
       THEN IF contentAvailable(t) THEN selectTile(w, t) ELSE w
       ELSE LET loadedTile == IF contentAvailable(t) THEN t
                              ELSE w.tile[t].ancestorWithContentAvailable
            IN IF loadedTile # NoTile
               THEN [w EXCEPT !.tile[loadedTile].shouldSelect = TRUE]
               ELSE selectDescendants(w, t)

\* --------------------------------------------------- executeEmptyTraversal
\* loadTile and touchTile of a tile that is not visible
loadIfNotVisible(w, t) ==
    IF ~isVisible(w, t) THEN touchTile(loadTile(w, t), t) ELSE w

\* a descent that goes on through every empty tile, whether or not it can traverse
emptyTraverseWhenEmpty(w, t) == hasEmptyContent(t)

\* var traverse = hasEmptyContent(tile) && canTraverse(tileset, tile)
emptyTraverse(w, t) == hasEmptyContent(t) /\ canTraverse(w, t)

\* the children of a traversed tile go on the stack
pushEmptyChildren(w, t, traverse) ==
    IF traverse THEN [w EXCEPT !.emptyStack = @ \o w.children[t]] ELSE w

\* an iteration of the loop on the tile it popped; traverse was computed first
emptyVisit(w, t) ==
    pushEmptyChildren(loadIfNotVisible(updateTile(w, t), t), t, emptyTraverse(w, t))

RECURSIVE executeEmptyTraversalLoop(_, _)
executeEmptyTraversalLoop(w, allDescendantsLoaded) ==
    IF w.emptyStack = <<>> THEN [w |-> w, result |-> allDescendantsLoaded]
    ELSE executeEmptyTraversalLoop(
             emptyVisit([w EXCEPT !.emptyStack = Pop(@)], Top(w.emptyStack)),
             IF ~emptyTraverse(w, Top(w.emptyStack)) /\ ~contentAvailable(Top(w.emptyStack))
             THEN FALSE
             ELSE allDescendantsLoaded)

\* the call is recorded with what it returned
returnFromEmptyTraversal(r, root) ==
    IF r.result
    THEN [r EXCEPT !.w.calls.emptyTraversalTrue = @ \cup {root}]
    ELSE [r EXCEPT !.w.calls.emptyTraversalFalse = @ \cup {root}]

executeEmptyTraversal(w, root) ==
    returnFromEmptyTraversal(
        executeEmptyTraversalLoop([w EXCEPT !.emptyStack = Append(@, root)], TRUE), root)

\* --------------------------------------------------- updateAndPushChildren
RECURSIVE updateChildren(_, _, _)
updateChildren(w, t, i) ==
    IF i > Len(w.children[t]) THEN w
    ELSE updateChildren(updateTile(w, w.children[t][i]), t, i + 1)

\* tile._wasMinChild || tile === tileset.root ? tile._priorityDistanceHolder : tile
priorityHolderOf(w, t) ==
    IF w.tile[t].wasMinChild \/ t = Root THEN w.tile[t].priorityDistanceHolder ELSE t

\* a parent that never waits for its children
checkRefinesNever(t) == FALSE

\* var checkRefines = !skipLevelOfDetail(tileset) && replace && !hasEmptyContent(tile)
checkRefines(t) == ~skipLevelOfDetail /\ refine[t] = "REPLACE" /\ ~hasEmptyContent(t)

\* a child that lets its parent refine whatever the state of its content
childRefinesAlways(w, child, emptyTraversalResult) == TRUE

\* var childRefines, with the result of executeEmptyTraversal(child) when it is called
childRefines(w, child, emptyTraversalResult) ==
    IF ~w.tile[child].inRequestVolume THEN FALSE
    ELSE IF hasEmptyContent(child) THEN emptyTraversalResult
    ELSE contentAvailable(child)

\* the non-visible branch of the loop: loadTile and touchTile of the child
loadIfNeededToRefine(w, child, check) ==
    IF ~isVisible(w, child) /\ (check \/ options.loadSiblings)
    THEN touchTile(loadTile(w, child), child)
    ELSE w

\* executeEmptyTraversal(child) when childRefines asks for it
probeChild(w, child, check) ==
    IF check /\ w.tile[child].inRequestVolume /\ hasEmptyContent(child)
    THEN executeEmptyTraversal(w, child)
    ELSE [w |-> w, result |-> FALSE]

\* a minimum taken over every child, visible or not
newMinimumOfAll(r, child, check) ==
    r.w.tile[child].priorityDistance < r.minDistancePriority

\* a child takes the minimum when it is visible, or loaded for its parent's sake
newMinimum(r, child, check) ==
    /\ isVisible(r.w, child) \/ check \/ options.loadSiblings
    /\ r.w.tile[child].priorityDistance < r.minDistancePriority

\* the loop's locals after the child at index i; probe is what probeChild gave
afterChild(r, child, check, i, probe) ==
    [w |-> probe.w,
     stack |-> IF isVisible(r.w, child) THEN Append(r.stack, child) ELSE r.stack,
     refines |-> IF check THEN r.refines /\ childRefines(r.w, child, probe.result)
                 ELSE r.refines,
     anyChildrenVisible |-> r.anyChildrenVisible \/ isVisible(r.w, child),
     minIndex |-> IF newMinimum(r, child, check) THEN i ELSE r.minIndex,
     minDistancePriority |-> IF newMinimum(r, child, check)
                             THEN r.w.tile[child].priorityDistance
                             ELSE r.minDistancePriority]

\* the body of the loop over the sorted children
pushChild(r, child, check, i) ==
    afterChild(r, child, check, i,
               probeChild(loadIfNeededToRefine(r.w, child, check), child, check))

\* the loop over the sorted children; r carries the loop's locals
RECURSIVE pushChildren(_, _, _, _)
pushChildren(r, t, check, i) ==
    IF i > Len(r.w.children[t]) THEN r
    ELSE pushChildren(pushChild(r, r.w.children[t][i], check, i), t, check, i + 1)

RECURSIVE setHolders(_, _, _, _)
setHolders(w, t, holder, i) ==
    IF i > Len(w.children[t]) THEN w
    ELSE setHolders([w EXCEPT !.tile[w.children[t][i]].priorityDistanceHolder = holder],
                    t, holder, i + 1)

\* children.sort(sortChildrenByDistanceToCamera)
sortChildren(w, t) == [w EXCEPT !.children[t] = SortChildren(w, @)]

\* minPriorityChild._wasMinChild = true and the priority handed to the holder
setMinChild(w, minPriorityChild, priorityHolder) ==
    [w EXCEPT !.tile[minPriorityChild].wasMinChild = TRUE,
              !.tile[priorityHolder].priorityDistance =
                  w.tile[minPriorityChild].priorityDistance]

\* a parent that refines although none of its children is visible
refinesWithoutVisibleChild(refines, anyChildrenVisible) == refines

\* if (!anyChildrenVisible) { refines = false; }
refinesIfAnyChildVisible(refines, anyChildrenVisible) == anyChildrenVisible /\ refines

\* the end of updateAndPushChildren, r being the locals the loop left
linkPriorities(r, t) ==
    [w |-> IF r.minIndex # -1
           THEN setHolders(setMinChild(r.w, r.w.children[t][r.minIndex],
                                       priorityHolderOf(r.w, t)),
                           t, priorityHolderOf(r.w, t), 1)
           ELSE r.w,
     stack |-> r.stack,
     refines |-> refinesIfAnyChildVisible(r.refines, r.anyChildrenVisible)]

updateAndPushChildren(w0, t, st) ==
    linkPriorities(
        pushChildren([w |-> sortChildren(updateChildren(w0, t, 1), t),
                      stack |-> st, refines |-> TRUE,
                      anyChildrenVisible |-> FALSE, minIndex |-> -1,
                      minDistancePriority |-> MAX_VALUE],
                     t, checkRefines(t), 1),
        t)

\* ------------------------------------- one iteration of executeTraversal
visitTile(w, t) == [w EXCEPT !.tile[t].visitedFrame = frameState.frameNumber]

\* a dispatch that treats an additive tile as a replacing one: it is loaded,
\* and selected only when it stopped refining
selectAndLoadAddAsReplace(w, t, baseTraversal, stopped) ==
    IF hasEmptyContent(t)
    THEN LET w1 == loadTile(addEmptyTile(w, t), t)
         IN IF stopped THEN selectDesiredTile(w1, t) ELSE w1
    ELSE IF baseTraversal
    THEN LET w1 == loadTile(w, t)
         IN IF stopped THEN selectDesiredTile(w1, t) ELSE w1
    ELSE IF stopped
    THEN loadTile(selectDesiredTile(w, t), t)
    ELSE IF reachedSkippingThreshold(w, t)
    THEN loadTile(w, t)
    ELSE w

\* the dispatch by content class, lines 584-613
selectAndLoad(w, t, baseTraversal, stopped) ==
    IF hasEmptyContent(t)
    THEN LET w1 == loadTile(addEmptyTile(w, t), t)
         IN IF stopped THEN selectDesiredTile(w1, t) ELSE w1
    ELSE IF refine[t] = "ADD"
    THEN loadTile(selectDesiredTile(w, t), t)
    ELSE IF refine[t] = "REPLACE"
    THEN IF baseTraversal
         THEN LET w1 == loadTile(w, t)
              IN IF stopped THEN selectDesiredTile(w1, t) ELSE w1
         ELSE IF stopped
         THEN loadTile(selectDesiredTile(w, t), t)
         ELSE IF reachedSkippingThreshold(w, t)
         THEN loadTile(w, t)
         ELSE w
    ELSE w

baseScreenSpaceErrorOf ==
    IF ~skipLevelOfDetail THEN options.maximumScreenSpaceError
    ELSE IF options.immediatelyLoadDesiredLevelOfDetail THEN MAX_VALUE
    ELSE IF options.baseScreenSpaceError > options.maximumScreenSpaceError
         THEN options.baseScreenSpaceError
         ELSE options.maximumScreenSpaceError

\* a tile that stops refining whether or not its parent refines
stoppedRefiningWhateverParent(refines, parentRefines) == ~refines

\* var stoppedRefining = !refines && parentRefines
stoppedRefining(refines, parentRefines) == ~refines /\ parentRefines

\* the end of an iteration: visitTile, touchTile, tile._refines = refines
finishVisit(w, t, refines, st) ==
    [w |-> [touchTile(visitTile(w, t), t) EXCEPT !.tile[t].refines = refines],
     stack |-> st]

\* an iteration from the dispatch on, pushed being what updateAndPushChildren gave
visitPushed(pushed, t, baseTraversal, parentRefines) ==
    finishVisit(
        selectAndLoad(pushed.w, t, baseTraversal,
                      stoppedRefining(pushed.refines /\ parentRefines, parentRefines)),
        t, pushed.refines /\ parentRefines, pushed.stack)

\* an iteration after updateTileAncestorContentLinks
visitLinked(w, t, st) ==
    visitPushed(IF canTraverse(w, t)
                THEN updateAndPushChildren(w, t, st)
                ELSE [w |-> w, stack |-> st, refines |-> FALSE],
                t,
                inBaseTraversal(w, t, baseScreenSpaceErrorOf),
                parent[t] = NoTile \/ w.tile[parent[t]].refines)

visit(w0, t, st) == visitLinked(updateTileAncestorContentLinks(w0, t), t, st)

\* ----------------------------------------------------- FrameRateMonitor
\* Time is counted in ticks of MillisecondsPerTick milliseconds.  The monitor
\* is constructed with the default frame rates and with a sampling window, a
\* quiet period and a warmup period of a few ticks.
MillisecondsPerTick == 125
samplingWindow == 3
quietPeriod == 2
warmupPeriod == 2
minimumFrameRateDuringWarmup == 4
minimumFrameRateAfterWarmup == 8

\* this._lastFramesPerSecond = undefined
undefinedFramesPerSecond == [frames |-> 0, milliseconds |-> 0]

\* the fields the constructor sets
FrameRateMonitor ==
    [frameTimes |-> <<>>,
     needsQuietPeriod |-> TRUE,
     quietPeriodEndTime |-> 0,
     warmupPeriodEndTime |-> 0,
     frameRateIsLow |-> FALSE,
     lastFramesPerSecond |-> undefinedFramesPerSecond]

\* while (frameTimes.length >= 2 && frameTimes[1] < beginningOfWindow) frameTimes.shift()
RECURSIVE shiftFrameTimes(_, _)
shiftFrameTimes(frameTimes, beginningOfWindow) ==
    IF Len(frameTimes) >= 2 /\ frameTimes[2] < beginningOfWindow
    THEN shiftFrameTimes(Tail(frameTimes), beginningOfWindow)
    ELSE frameTimes

\* 1000.0 / averageTimeBetweenFrames, kept as the fraction it is: so many
\* frames in so many milliseconds
framesPerSecond(frameTimes, timeStamp) ==
    [frames |-> Len(frameTimes) - 1,
     milliseconds |-> (timeStamp - frameTimes[1]) * MillisecondsPerTick]

\* the frame rate a window has to reach
minimumFrameRate(m, timeStamp) ==
    IF timeStamp > m.warmupPeriodEndTime THEN minimumFrameRateAfterWarmup
    ELSE minimumFrameRateDuringWarmup

\* averageTimeBetweenFrames > maximumFrameTime, both sides multiplied by the
\* number of frames and by the minimum frame rate
tooSlow(m, frameTimes, timeStamp) ==
    (timeStamp - frameTimes[1]) * MillisecondsPerTick * minimumFrameRate(m, timeStamp)
        > 1000 * (Len(frameTimes) - 1)

\* a monitor that raises lowFrameRate whenever a window is too slow
raisesLowAgain(m) == TRUE

\* if (!monitor._frameRateIsLow)
raisesLow(m) == ~m.frameRateIsLow

\* the window is full: the frame rate is computed and compared
measure(m, frameTimes, timeStamp, events) ==
    IF tooSlow(m, frameTimes, timeStamp)
    THEN IF raisesLow(m)
         THEN [m |-> [m EXCEPT !.frameTimes = frameTimes,
                               !.lastFramesPerSecond = framesPerSecond(frameTimes, timeStamp),
                               !.frameRateIsLow = TRUE,
                               !.needsQuietPeriod = TRUE],
               raised |-> Append(events, "lowFrameRate")]
         ELSE [m |-> [m EXCEPT !.frameTimes = frameTimes,
                               !.lastFramesPerSecond = framesPerSecond(frameTimes, timeStamp)],
               raised |-> events]
    ELSE IF m.frameRateIsLow
         THEN [m |-> [m EXCEPT !.frameTimes = frameTimes,
                               !.lastFramesPerSecond = framesPerSecond(frameTimes, timeStamp),
                               !.frameRateIsLow = FALSE,
                               !.needsQuietPeriod = TRUE],
               raised |-> Append(events, "nominalFrameRate")]
         ELSE [m |-> [m EXCEPT !.frameTimes = frameTimes,
                               !.lastFramesPerSecond = framesPerSecond(frameTimes, timeStamp)],
               raised |-> events]

\* monitor._frameTimes.push(timeStamp) and what follows it
record(m, frameTimes, timeStamp, events) ==
    IF Len(frameTimes) >= 2 /\ frameTimes[1] <= timeStamp - samplingWindow
    THEN measure(m, shiftFrameTimes(frameTimes, timeStamp - samplingWindow),
                 timeStamp, events)
    ELSE [m |-> [m EXCEPT !.frameTimes = frameTimes], raised |-> events]

\* a monitor that records frames during the quiet period as well
quietPeriodOverAlways(m, timeStamp) == TRUE

\* else if (timeStamp >= monitor._quietPeriodEndTime)
quietPeriodOver(m, timeStamp) == timeStamp >= m.quietPeriodEndTime

\* update(monitor, time), called before every render; isHidden is
\* defined(monitor._hiddenPropertyName) && document[monitor._hiddenPropertyName]
update(m, isHidden, timeStamp, events) ==
    IF isHidden THEN [m |-> m, raised |-> events]
    ELSE IF m.needsQuietPeriod
    THEN [m |-> [m EXCEPT !.needsQuietPeriod = FALSE,
                          !.frameTimes = <<>>,
                          !.quietPeriodEndTime = timeStamp + quietPeriod,
                          !.warmupPeriodEndTime =
                              timeStamp + quietPeriod + warmupPeriod + samplingWindow],
          raised |-> events]
    ELSE IF quietPeriodOver(m, timeStamp)
    THEN record(m, Append(m.frameTimes, timeStamp), timeStamp, events)
    ELSE [m |-> m, raised |-> events]

\* visibilityChanged(monitor), called when the page is hidden or shown
visibilityChanged(m, isHidden) ==
    IF isHidden
    THEN [m EXCEPT !.frameTimes = <<>>, !.lastFramesPerSecond = undefinedFramesPerSecond]
    ELSE [m EXCEPT !.needsQuietPeriod = TRUE]

\* ------------------------------------------------ the scenarios of a run
\* A run starts from a freshly constructed tileset: a tree of NumTiles tiles
\* whose content is not loaded, seen by a camera that does not move.  The
\* nominal tile is a REPLACE tile with content of its own, visible, in the
\* request volume, at distance t from the camera, with a screen space error
\* above the budget when it has children and within it when it is a leaf.
\* A scenario departs from the nominal one in at most MaxDeviations places.
TreeShapes ==
    {p \in [Tiles -> 0..NumTiles] :
        /\ p[Root] = NoTile
        /\ \A t \in Tiles \ {Root} : p[t] \in 1..(t - 1)}

BaseMode == {<<FALSE, FALSE>>}
SkipModes == {<<TRUE, TRUE>>, <<TRUE, FALSE>>}
AllModes == BaseMode \cup SkipModes

PerTileDeviations ==
    {"add", "empty", "tileset", "hidden", "outOfVolume", "fine", "medium",
     "contentOutside", "cameraInside"}
PerTilesetDeviations == {"loadSiblings", "treeMeetsSSE"}

DeviationsOf(names) ==
    {<<n, t>> : n \in names \cap PerTileDeviations, t \in Tiles}
        \cup {<<n, Root>> : n \in names \cap PerTilesetDeviations}

RECURSIVE SubsetsUpTo(_, _)
SubsetsUpTo(S, k) ==
    IF k = 0 THEN {{}}
    ELSE LET smaller == SubsetsUpTo(S, k - 1)
         IN smaller \cup {A \cup {x} : A \in smaller, x \in S}

Scenarios(names) ==
    {D \in SubsetsUpTo(DeviationsOf(names), MaxDeviations) :
        \A t \in Tiles : ~(<<"empty", t>> \in D /\ <<"tileset", t>> \in D)}

OptionsOf(mode, D) ==
    [skipLevelOfDetail |-> mode[1],
     immediatelyLoadDesiredLevelOfDetail |-> mode[2],
     loadSiblings |-> <<"loadSiblings", Root>> \in D,
     maximumScreenSpaceError |-> 16,
     baseScreenSpaceError |-> 24,
     skipScreenSpaceErrorFactor |-> 2,
     skipLevels |-> 1,
     boundingRadius |-> 1]

CameraOf(p, D) ==
    [t \in Tiles |->
        [visible |-> <<"hidden", t>> \notin D,
         inRequestVolume |-> <<"outOfVolume", t>> \notin D,
         screenSpaceError |->
             IF <<"fine", t>> \in D THEN 8
             ELSE IF <<"medium", t>> \in D THEN 20
             ELSE IF <<"coarse", t>> \in D THEN 64
             ELSE IF \E c \in Tiles : p[c] = t THEN 32 ELSE 8,
         distanceToCamera |-> IF <<"cameraInside", t>> \in D THEN 0 ELSE t,
         centerZDepth |-> IF <<"cameraInside", t>> \in D THEN 0 ELSE t + 1,
         contentOutside |-> <<"contentOutside", t>> \in D,
         \* tile.getScreenSpaceError(frameState, true): with the parent's geometric error
         screenSpaceErrorOfParentError |-> IF <<"meetsEarly", t>> \in D THEN 8 ELSE 32]]

\* the fields a tile is constructed with
NewTile(t) ==
    [visible |-> FALSE, inRequestVolume |-> FALSE, screenSpaceError |-> 0,
     distanceToCamera |-> 0, centerZDepth |-> 0,
     priorityDistance |-> MAX_VALUE, priorityDistanceHolder |-> t,
     wasMinChild |-> FALSE, shouldSelect |-> FALSE, finalResolution |-> TRUE,
     refines |-> FALSE, selectionDepth |-> 0, stackLength |-> 0,
     ancestorWithContent |-> NoTile, ancestorWithContentAvailable |-> NoTile,
     visitedFrame |-> 0, touchedFrame |-> 0, selectedFrame |-> 0,
     requestedFrame |-> 0, lastStyleTime |-> 0, featurePropertiesDirty |-> FALSE]

InitFrom(modes, scenarios) ==
    /\ parent \in TreeShapes
    /\ \E mode \in modes, D \in scenarios :
        /\ refine = [t \in Tiles |-> IF <<"add", t>> \in D THEN "ADD" ELSE "REPLACE"]
        /\ kind = [t \in Tiles |-> IF <<"empty", t>> \in D THEN "empty"
                                   ELSE IF <<"tileset", t>> \in D THEN "tileset"
                                   ELSE "content"]
        /\ options = OptionsOf(mode, D)
        /\ frameState = [frameNumber |-> 0,
                         rootScreenSpaceError |->
                             IF <<"treeMeetsSSE", Root>> \in D THEN 8 ELSE 32,
                         camera |-> CameraOf(parent, D)]
    /\ contentState = [t \in Tiles |-> IF kind[t] = "content" THEN "UNLOADED" ELSE "READY"]
    /\ expiries = 0
    /\ tile = [t \in Tiles |-> NewTile(t)]
    /\ children = [t \in Tiles |-> SeqOfSet(ChildSet(t))]
    /\ selectedTiles = <<>>
    /\ selectedTilesToStyle = <<>>
    /\ requestedTiles = <<>>
    /\ emptyTiles = <<>>
    /\ hasMixedContent = FALSE
    /\ cacheTouches = <<>>
    /\ calls = NoCalls
    /\ stack = <<>>
    /\ ancestorStack = <<>>
    /\ lastAncestor = NoTile
    /\ descendantStack = <<>>
    /\ emptyStack = <<>>
    /\ debugFreezeFrame = FALSE
    /\ moves = 0
    /\ lastSelected = [valid |-> FALSE, tiles |-> {}]
    /\ returnValue = "none"
    /\ pc = "idle"
    /\ monitor = FrameRateMonitor
    /\ hidden = FALSE
    /\ now = 0
    /\ raised = <<>>

InitWith(modes, names) == InitFrom(modes, Scenarios(names))

Init == InitWith(AllModes, PerTileDeviations \cup PerTilesetDeviations)

static == <<parent, refine, kind, options>>
page == <<monitor, hidden, now, raised>>
scene == <<debugFreezeFrame, moves>>
scratch == <<descendantStack, emptyStack>>
lists == <<selectedTiles, selectedTilesToStyle, requestedTiles, emptyTiles, hasMixedContent>>

\* ------------------------------------------------------------ the frame
\* the scene starts the next frame and calls selectTiles
AdvanceFrame ==
    /\ pc \in {"idle", "returned"}
    /\ frameState.frameNumber < MaxFrame
    /\ frameState' = [frameState EXCEPT !.frameNumber = @ + 1]
    /\ cacheTouches' = <<>>
    /\ calls' = NoCalls
    /\ lastSelected' = IF pc = "returned"
                       THEN [valid |-> TRUE, tiles |-> Range(selectedTiles)]
                       ELSE [valid |-> FALSE, tiles |-> {}]
    /\ pc' = "call"
    /\ UNCHANGED <<page, static, scene, contentState, expiries, tile, children, lists, scratch,
                   stack, ancestorStack, lastAncestor, returnValue>>

\* a frozen frame that empties the selection as well
ReturnFrozenCleared ==
    /\ requestedTiles' = <<>>
    /\ selectedTiles' = <<>>
    /\ pc' = "returned"
    /\ returnValue' = "undefined"
    /\ UNCHANGED <<tile, children, selectedTilesToStyle, emptyTiles, hasMixedContent,
                   cacheTouches, calls, scratch, stack>>

\* tileset._requestedTiles.length = 0; if (tileset.debugFreezeFrame) return
ReturnFrozen ==
    /\ requestedTiles' = <<>>
    /\ pc' = "returned"
    /\ returnValue' = "undefined"
    /\ UNCHANGED <<tile, children, selectedTiles, selectedTilesToStyle, emptyTiles,
                   hasMixedContent, cacheTouches, calls, scratch, stack>>

\* the last frame's selectedTilesToStyle are kept
ClearedListsButStyle ==
    [World EXCEPT !.requestedTiles = <<>>,
                  !.selectedTiles = <<>>,
                  !.emptyTiles = <<>>,
                  !.hasMixedContent = FALSE]

\* the lists of the last frame are emptied
ClearedLists ==
    [World EXCEPT !.requestedTiles = <<>>,
                  !.selectedTiles = <<>>,
                  !.selectedTilesToStyle = <<>>,
                  !.emptyTiles = <<>>,
                  !.hasMixedContent = FALSE]

\* a selectTiles without the test of the root's error against the budget
BeginTraversalWhateverError(w) ==
    /\ Commit(w)
    /\ IF ~isVisible(w, Root)
       THEN /\ pc' = "returned"
            /\ returnValue' = "undefined"
            /\ stack' = stack
       ELSE /\ pc' = "traverse"
            /\ returnValue' = returnValue
            /\ stack' = Append(stack, Root)

\* the two early returns, else the root goes on the traversal's stack
BeginTraversal(w) ==
    /\ Commit(w)
    /\ IF ~isVisible(w, Root)
          \/ frameState.rootScreenSpaceError <= options.maximumScreenSpaceError
       THEN /\ pc' = "returned"
            /\ returnValue' = "undefined"
            /\ stack' = stack
       ELSE /\ pc' = "traverse"
            /\ returnValue' = returnValue
            /\ stack' = Append(stack, Root)

\* selectTiles up to the dispatch by mode
SelectTiles ==
    /\ pc = "call"
    /\ IF debugFreezeFrame
       THEN ReturnFrozen
       ELSE BeginTraversal(updateTile(ClearedLists, Root))
    /\ UNCHANGED <<page, static, scene, lastSelected, contentState, expiries, frameState, ancestorStack, lastAncestor>>

CommitVisit(r) ==
    /\ Commit(r.w)
    /\ stack' = r.stack

\* one iteration of the loop of executeTraversal
ExecuteTraversalStep ==
    /\ pc = "traverse"
    /\ stack # <<>>
    /\ CommitVisit(visit(World, Top(stack), Pop(stack)))
    /\ UNCHANGED <<page, static, scene, lastSelected, contentState, expiries, frameState, ancestorStack, lastAncestor,
                   returnValue, pc>>

\* executeBaseTraversal is done: selectTiles returns true
ReturnFromBaseTraversal ==
    /\ pc = "traverse"
    /\ stack = <<>>
    /\ ~skipLevelOfDetail
    /\ pc' = "returned"
    /\ returnValue' = "true"
    /\ UNCHANGED <<page, static, scene, lastSelected, contentState, expiries, frameState, tile, children, lists, scratch, cacheTouches,
                   calls, stack, ancestorStack, lastAncestor>>

\* executeTraversal is done in a skip mode: traverseAndSelect starts
BeginTraverseAndSelect ==
    /\ pc = "traverse"
    /\ stack = <<>>
    /\ skipLevelOfDetail
    /\ stack' = Append(stack, Root)
    /\ lastAncestor' = NoTile
    /\ pc' = "selection"
    /\ UNCHANGED <<page, static, scene, lastSelected, contentState, expiries, frameState, tile, children, lists, scratch, cacheTouches,
                   calls, ancestorStack, returnValue>>

\* a selection depth that does not count the waiting ancestors
selectionDepthZero(ancestors) == 0

\* tile._selectionDepth = ancestorStack.length
selectionDepth(ancestors) == Len(ancestors)

\* a stack length recorded with the tile still counted
stackLengthBeforePop(st) == Len(st) + 1

\* tile._stackLength = stack.length, after the tile was popped
stackLength(st) == Len(st)

\* a test that lets the waiting tile go only once the stack is shorter
stackLengthPassed(w, waitingTile, st) == w.tile[waitingTile].stackLength > Len(st)

\* waitingTile._stackLength === stack.length
stackLengthReached(w, waitingTile, st) == w.tile[waitingTile].stackLength = Len(st)

\* a test that finds every waiting tile superseded
notLastAncestorAlways(waitingTile, last) == TRUE

\* waitingTile !== lastAncestor
notLastAncestor(waitingTile, last) == waitingTile # last

RECURSIVE pushVisibleChildren(_, _, _, _)
pushVisibleChildren(w, st, t, i) ==
    IF i > Len(w.children[t]) THEN st
    ELSE pushVisibleChildren(
             w, IF isVisible(w, w.children[t][i]) THEN Append(st, w.children[t][i]) ELSE st,
             t, i + 1)

\* one iteration of the loop of traverseAndSelect
TraverseAndSelectStep ==
    /\ pc = "selection"
    /\ stack # <<>> \/ ancestorStack # <<>>
    /\ LET w == World
       IN IF ancestorStack # <<>> /\ stackLengthReached(w, Top(ancestorStack), stack)
          THEN LET waitingTile == Top(ancestorStack)
                   w1 == IF notLastAncestor(waitingTile, lastAncestor)
                         THEN [w EXCEPT !.tile[waitingTile].finalResolution = FALSE]
                         ELSE w
               IN /\ Commit(selectTile(w1, waitingTile))
                  /\ ancestorStack' = Pop(ancestorStack)
                  /\ UNCHANGED <<stack, lastAncestor>>
          ELSE IF stack = <<>>
          THEN \* stack.pop() gave undefined: continue
               /\ Commit(w)
               /\ UNCHANGED <<stack, ancestorStack, lastAncestor>>
          ELSE LET t == Top(stack)
                   st == Pop(stack)
                   add == refine[t] = "ADD"
                   shouldSelect == w.tile[t].shouldSelect
                   traverse == canTraverse(w, t)
                   replaceSelected == shouldSelect /\ ~add
                   w1 == IF replaceSelected
                         THEN [w EXCEPT !.tile[t].selectionDepth = selectionDepth(ancestorStack),
                                        !.hasMixedContent = @ \/ selectionDepth(ancestorStack) > 0]
                         ELSE w
               IN IF shouldSelect /\ add
                  THEN /\ Commit(selectTile(w1, t))
                       /\ stack' = IF traverse THEN pushVisibleChildren(w1, st, t, 1) ELSE st
                       /\ UNCHANGED <<ancestorStack, lastAncestor>>
                  ELSE IF replaceSelected /\ ~traverse
                  THEN /\ Commit(selectTile(w1, t))
                       /\ stack' = st
                       /\ lastAncestor' = t
                       /\ UNCHANGED ancestorStack
                  ELSE IF replaceSelected
                  THEN /\ Commit([w1 EXCEPT !.tile[t].stackLength = stackLength(st)])
                       /\ ancestorStack' = Append(ancestorStack, t)
                       /\ lastAncestor' = t
                       /\ stack' = pushVisibleChildren(w1, st, t, 1)
                  ELSE /\ Commit(w1)
                       /\ stack' = IF traverse THEN pushVisibleChildren(w1, st, t, 1) ELSE st
                       /\ UNCHANGED <<ancestorStack, lastAncestor>>
    /\ UNCHANGED <<page, static, scene, lastSelected, contentState, expiries, frameState, returnValue, pc>>

\* traverseAndSelect is done: selectTiles returns true
ReturnFromSelectTiles ==
    /\ pc = "selection"
    /\ stack = <<>>
    /\ ancestorStack = <<>>
    /\ pc' = "returned"
    /\ returnValue' = "true"
    /\ UNCHANGED <<page, static, scene, lastSelected, contentState, expiries, frameState, tile, children, lists, scratch, cacheTouches,
                   calls, stack, ancestorStack, lastAncestor>>

\* ---------------------------------------------- between two frames
\* the caller requests a tile of requestedTiles and its content arrives
LoadContent(t) ==
    /\ pc \in {"idle", "returned"}
    /\ t \in Range(requestedTiles)
    /\ contentState[t] \in {"UNLOADED", "EXPIRED"}
    /\ contentState' = [contentState EXCEPT ![t] = "READY"]
    /\ pc' = "idle"
    /\ UNCHANGED <<page, static, scene, lastSelected, frameState, expiries, tile, children, lists, scratch, cacheTouches,
                   calls, stack, ancestorStack, lastAncestor, returnValue>>

\* the expire date of a tile's content passes
ContentExpires(t) ==
    /\ pc \in {"idle", "returned"}
    /\ expiries < MaxExpiries
    /\ contentState[t] = "READY"
    /\ kind[t] # "empty"
    /\ contentState' = [contentState EXCEPT ![t] = "EXPIRED"]
    /\ expiries' = expiries + 1
    /\ pc' = "idle"
    /\ UNCHANGED <<page, static, scene, lastSelected, frameState, tile, children, lists, scratch, cacheTouches, calls, stack,
                   ancestorStack, lastAncestor, returnValue>>

\* the application sets or clears tileset.debugFreezeFrame
SetDebugFreezeFrame ==
    /\ pc \in {"idle", "returned"}
    /\ debugFreezeFrame' = ~debugFreezeFrame
    /\ pc' = "idle"
    /\ UNCHANGED <<page, static, moves, lastSelected, contentState, expiries, frameState, tile,
                   children, lists, scratch, cacheTouches, calls, stack, ancestorStack,
                   lastAncestor, returnValue>>

\* the camera turns away from the tileset or back to it
CameraTurns ==
    /\ frameState' = [frameState EXCEPT !.camera[Root].visible = ~@]

\* the camera moves away from the tileset or back to it: the error of the
\* whole tree falls within the budget or leaves it
CameraZooms ==
    /\ frameState' = [frameState EXCEPT
                         !.rootScreenSpaceError = IF @ = 8 THEN 32 ELSE 8]

CameraMoves ==
    /\ pc \in {"idle", "returned"}
    /\ moves < MaxMoves
    /\ CameraTurns \/ CameraZooms
    /\ moves' = moves + 1
    /\ pc' = "idle"
    /\ UNCHANGED <<page, static, debugFreezeFrame, lastSelected, contentState, expiries, tile,
                   children, lists, scratch, cacheTouches, calls, stack, ancestorStack,
                   lastAncestor, returnValue>>

Next ==
    \/ AdvanceFrame
    \/ SelectTiles
    \/ ExecuteTraversalStep
    \/ ReturnFromBaseTraversal
    \/ BeginTraverseAndSelect
    \/ TraverseAndSelectStep
    \/ ReturnFromSelectTiles
    \/ (\E t \in Tiles : LoadContent(t))
    \/ (\E t \in Tiles : ContentExpires(t))

Spec == Init /\ [][Next]_vars

\* base mode alone: traverseAndSelect never runs
NextBase ==
    \/ AdvanceFrame
    \/ SelectTiles
    \/ ExecuteTraversalStep
    \/ ReturnFromBaseTraversal
    \/ (\E t \in Tiles : LoadContent(t))
    \/ (\E t \in Tiles : ContentExpires(t))

SpecBase == InitWith(BaseMode, PerTileDeviations \cup PerTilesetDeviations)
                /\ [][NextBase]_vars

\* base mode over additive tilesets: the root refines by addition, every other
\* tile by addition or by replacement, and the scenario departs further from
\* the nominal one by a content out of the view or by a root that cannot
\* traverse
AddScenarios ==
    {D \cup {<<"add", Root>>} \cup {<<"add", t>> : t \in A} :
        D \in Scenarios({"contentOutside"}) \cup {{<<"fine", Root>>}},
        A \in SUBSET (Tiles \ {Root})}

SpecAdd == InitFrom(BaseMode, AddScenarios) /\ [][NextBase]_vars

\* base mode over tilesets with empty tiles below the root, nested or side by
\* side, some of them unable to traverse or out of the request volume
EmptyScenarios ==
    {D \cup {<<"empty", t>> : t \in A} :
        D \in Scenarios({"fine", "outOfVolume", "contentOutside"}),
        A \in (SUBSET (Tiles \ {Root})) \ {{}}}

SpecEmpty == InitFrom(BaseMode, EmptyScenarios) /\ [][NextBase]_vars

\* tilesets with an additive root and one tile whose screen space error,
\* computed with its parent's geometric error, is within the budget
EarlyScenarios ==
    {{<<"add", Root>>, <<"meetsEarly", t>>} : t \in Tiles \ {Root}}

SpecEarly == InitFrom(AllModes, EarlyScenarios) /\ [][Next]_vars

\* the skip modes alone
NextSkip ==
    \/ AdvanceFrame
    \/ SelectTiles
    \/ ExecuteTraversalStep
    \/ BeginTraverseAndSelect
    \/ TraverseAndSelectStep
    \/ ReturnFromSelectTiles
    \/ (\E t \in Tiles : LoadContent(t))
    \/ (\E t \in Tiles : ContentExpires(t))

SpecSkip == InitWith(SkipModes, PerTileDeviations \cup PerTilesetDeviations)
                /\ [][NextSkip]_vars

\* the scene around the tileset: a camera that moves and a frame that can be
\* frozen, over tilesets that depart from the nominal one in their refinement
NextScene ==
    \/ AdvanceFrame
    \/ SelectTiles
    \/ ExecuteTraversalStep
    \/ ReturnFromBaseTraversal
    \/ BeginTraverseAndSelect
    \/ TraverseAndSelectStep
    \/ ReturnFromSelectTiles
    \/ (\E t \in Tiles : LoadContent(t))
    \/ SetDebugFreezeFrame
    \/ CameraMoves

SpecScene == InitWith(AllModes, {"add"}) /\ [][NextScene]_vars

\* selectTiles is running
Running == pc \in {"call", "traverse", "selection"}

\* traverseAndSelect turns in place: nothing left to pop, and the tile on top
\* of the ancestor stack waits for a stack length other than 0
Stuck ==
    /\ pc = "selection"
    /\ stack = <<>>
    /\ ancestorStack # <<>>
    /\ tile[Top(ancestorStack)].stackLength # 0

\* selectTiles is one synchronous call: a behaviour does not halt inside it
\* while an iteration that changes the state is possible.  Either the call is
\* left again and again, or iterations go on for ever, or the call has come
\* to the one place where an iteration changes nothing.  (Weak fairness of
\* the steps says the same, at the cost of evaluating ENABLED of a whole
\* iteration in every state.)
Fairness == []<>(~Running) \/ []<><<Running>>_vars \/ <>[]Stuck

\* the skip modes over tilesets whose root is coarse enough, and whose other
\* tiles are fine enough, for levels to be skipped between them
SkipScenarios ==
    {C \cup {<<"medium", t>> : t \in A} :
        C \in {{}, {<<"coarse", Root>>}},
        A \in SUBSET (Tiles \ {Root})}

SpecSkipLevels == InitFrom(SkipModes, SkipScenarios) /\ [][NextSkip]_vars

\* the frame loop over tilesets whose content arrives and stays
NextFair ==
    \/ AdvanceFrame
    \/ SelectTiles
    \/ ExecuteTraversalStep
    \/ ReturnFromBaseTraversal
    \/ BeginTraverseAndSelect
    \/ TraverseAndSelectStep
    \/ ReturnFromSelectTiles
    \/ (\E t \in Tiles : LoadContent(t))

SpecFair == InitWith(AllModes, {"add"}) /\ [][NextFair]_vars /\ Fairness

\* a property of a feature of a loaded tile is changed by the application
FeaturePropertyChanges(t) ==
    /\ pc \in {"idle", "returned"}
    /\ contentAvailable(t)
    /\ \A u \in Tiles : ~tile[u].featurePropertiesDirty
    /\ tile' = [tile EXCEPT ![t].featurePropertiesDirty = TRUE]
    /\ UNCHANGED <<page, static, scene, lastSelected, frameState, contentState, expiries, children,
                   lists, scratch, cacheTouches, calls, stack, ancestorStack, lastAncestor,
                   returnValue, pc>>

\* the time of the style the style engine applies
styleTime == 1

\* the style engine styles the tiles of selectedTilesToStyle after the call
ApplyStyle ==
    /\ pc = "returned"
    /\ \E t \in Range(selectedTilesToStyle) : tile[t].lastStyleTime # styleTime
    /\ tile' = [t \in Tiles |->
                   IF t \in Range(selectedTilesToStyle)
                   THEN [tile[t] EXCEPT !.lastStyleTime = styleTime]
                   ELSE tile[t]]
    /\ UNCHANGED <<page, static, scene, lastSelected, frameState, contentState, expiries, children,
                   lists, scratch, cacheTouches, calls, stack, ancestorStack, lastAncestor,
                   returnValue, pc>>

\* the frame loop with an application that edits feature properties and a
\* style engine that styles what the traversal hands it
NextStyle ==
    \/ AdvanceFrame
    \/ SelectTiles
    \/ ExecuteTraversalStep
    \/ ReturnFromBaseTraversal
    \/ BeginTraverseAndSelect
    \/ TraverseAndSelectStep
    \/ ReturnFromSelectTiles
    \/ (\E t \in Tiles : LoadContent(t))
    \/ (\E t \in Tiles : FeaturePropertyChanges(t))
    \/ ApplyStyle

SpecStyle == InitWith(AllModes, {"add"}) /\ [][NextStyle]_vars

\* ------------------------------------------------------------ properties
Selected == Range(selectedTiles)
Requested == Range(requestedTiles)
Visited(t) == tile[t].visitedFrame = frameState.frameNumber
Descendants(t) == {d \in Tiles : t \in Ancestors(d)}
\* selectTiles is running or has just returned: the content states are those it saw
InFrame == pc \in {"traverse", "selection", "returned"}
\* selectTiles has just returned from a frame in which the traversal ran
TraversalRan == pc = "returned" /\ returnValue = "true"
\* var parentRefines = !defined(parent) || parent._refines
ParentRefines(t) == parent[t] = NoTile \/ tile[parent[t]].refines
\* a REPLACE tile whose _shouldSelect flag is set
Marked(t) == refine[t] = "REPLACE" /\ tile[t].shouldSelect
NoDuplicates(s) == \A i, j \in 1..Len(s) : s[i] = s[j] => i = j
\* the place of the last occurrence of t in selectedTiles
LastIndex(t) == CHOOSE i \in 1..Len(selectedTiles) :
                    /\ selectedTiles[i] = t
                    /\ \A k \in (i + 1)..Len(selectedTiles) : selectedTiles[k] # t
\* the nearest proper ancestor of t whose content is available, NoTile when there is none
RECURSIVE NearestAvailable(_)
NearestAvailable(t) == IF parent[t] = NoTile THEN NoTile
                       ELSE IF contentAvailable(parent[t]) THEN parent[t]
                       ELSE NearestAvailable(parent[t])
\* s is in ascending order of distance to the camera
Ascending(s) == \A i \in 1..(Len(s) - 1) :
                    tile[s[i]].distanceToCamera <= tile[s[i + 1]].distanceToCamera

\* C1: in every mode, a REPLACE tile of selectedTiles has available content
\* (content does not change while selectTiles runs, so this is its state at
\* the moment of the append), and a REPLACE tile whose _shouldSelect flag is
\* set has available content.
C1_SelectedReplaceAvailable ==
    \A t \in Tiles : refine[t] = "REPLACE" =>
        /\ (t \in Selected => contentAvailable(t))
        /\ (tile[t].shouldSelect => contentAvailable(t))

\* a skip frame has selected one REPLACE tile through its flag and another
\* through selectDescendants
C1_Witness ==
    /\ TraversalRan
    /\ skipLevelOfDetail
    /\ \E t \in Selected : Marked(t)
    /\ \E r \in calls.selectDescendants :
           \E t \in Selected \cap Descendants(r) : refine[t] = "REPLACE"

\* C2 as stated: in base mode, after selectTiles, no selected tile has a
\* selected proper descendant with loaded content.
C2_OneLevelPerPath ==
    (TraversalRan /\ ~skipLevelOfDetail) =>
        \A a \in Selected, d \in Selected :
            ~(a \in Ancestors(d) /\ contentAvailable(d))

\* C2: in base mode, after selectTiles, no selected REPLACE tile has a
\* selected proper descendant that is a REPLACE tile.
C2_OneReplaceLevelPerPath ==
    (TraversalRan /\ ~skipLevelOfDetail) =>
        \A a \in Selected, d \in Selected :
            ~(a \in Ancestors(d) /\ refine[a] = "REPLACE" /\ refine[d] = "REPLACE")

\* a selected REPLACE tile stands for a loaded REPLACE descendant
C2_Witness ==
    /\ TraversalRan
    /\ ~skipLevelOfDetail
    /\ \E a \in Selected : \E d \in Descendants(a) :
           /\ refine[a] = "REPLACE" /\ refine[d] = "REPLACE"
           /\ Visited(d) /\ contentAvailable(d) /\ d \notin Selected

\* C3 as stated: in base mode, every visible child of a visited REPLACE tile
\* whose _refines is true has available content or is an empty child whose
\* executeEmptyTraversal returned true.
C3_RefinesImpliesChildrenComplete ==
    (pc \in {"traverse", "returned"} /\ ~skipLevelOfDetail) =>
        \A t \in Tiles : (Visited(t) /\ refine[t] = "REPLACE" /\ tile[t].refines) =>
            \A c \in ChildSet(t) : isVisible(World, c) =>
                \/ contentAvailable(c)
                \/ hasEmptyContent(c) /\ c \in calls.emptyTraversalTrue

\* C3: in base mode, every visible child of a visited REPLACE tile that has
\* content of its own (is neither empty nor an external tileset) and whose
\* _refines is true has available content or is an empty child whose
\* executeEmptyTraversal returned true.
C3_NonEmptyRefinesImpliesChildrenComplete ==
    (pc \in {"traverse", "returned"} /\ ~skipLevelOfDetail) =>
        \A t \in Tiles :
            (Visited(t) /\ refine[t] = "REPLACE" /\ ~hasEmptyContent(t) /\ tile[t].refines) =>
                \A c \in ChildSet(t) : isVisible(World, c) =>
                    \/ contentAvailable(c)
                    \/ hasEmptyContent(c) /\ c \in calls.emptyTraversalTrue

\* a tile refines over a loaded child and an empty child whose subtree is loaded
C3_Witness ==
    /\ pc = "returned"
    /\ ~skipLevelOfDetail
    /\ \E t \in Tiles :
           /\ Visited(t) /\ refine[t] = "REPLACE" /\ ~hasEmptyContent(t) /\ tile[t].refines
           /\ \E c \in ChildSet(t) :
                  isVisible(World, c) /\ hasEmptyContent(c) /\ c \in calls.emptyTraversalTrue
           /\ \E c \in ChildSet(t) : isVisible(World, c) /\ contentAvailable(c)

\* what C4 asks of R after selectTiles
C4_Outcome(R) ==
    /\ ~tile[R].refines
    /\ R \in Selected
    /\ Descendants(R) \cap Selected = {}
    /\ \A c \in ChildSet(R) : hasUnloadedContent(c) => c \in Requested

\* C4 as stated, for the tiles R this frame's traversal visited: in base mode,
\* a visible non-empty REPLACE tile R with available content that can traverse
\* and has a child without available content ends the frame with _refines
\* false, selected, with no descendant selected and every unloaded child
\* requested.
C4_ParentHeldBack ==
    (TraversalRan /\ ~skipLevelOfDetail) =>
        \A R \in Tiles :
            (/\ Visited(R) /\ isVisible(World, R)
             /\ contentAvailable(R) /\ ~hasEmptyContent(R)
             /\ refine[R] = "REPLACE" /\ canTraverse(World, R)
             /\ \E c \in ChildSet(R) : ~contentAvailable(c))
            => C4_Outcome(R)

\* the tiles R the amended C4 is about
C4_Case(R) ==
    /\ Visited(R) /\ ParentRefines(R)
    /\ contentAvailable(R) /\ contentNotOutside(R)
    /\ refine[R] = "REPLACE" /\ canTraverse(World, R)
    /\ \E c \in ChildSet(R) : ~hasEmptyContent(c) /\ ~contentAvailable(c)

\* C4: in base mode, a REPLACE tile R with available content not outside the
\* view, visited with parentRefines true (R is the root or its parent
\* refines), that can traverse and has a non-empty child without available
\* content ends the frame with _refines false, selected, with no descendant
\* selected other than ADD tiles and every unloaded child requested.
C4_ParentHeldBackWhenReached ==
    (TraversalRan /\ ~skipLevelOfDetail) =>
        \A R \in Tiles : C4_Case(R) =>
            /\ ~tile[R].refines
            /\ R \in Selected
            /\ \A d \in Descendants(R) \cap Selected : refine[d] = "ADD"
            /\ \A c \in ChildSet(R) : hasUnloadedContent(c) => c \in Requested

\* a tile below the root is held back by one unloaded child beside a loaded one
C4_Witness ==
    /\ TraversalRan
    /\ ~skipLevelOfDetail
    /\ \E R \in Tiles \ {Root} :
           /\ C4_Case(R)
           /\ \E c \in ChildSet(R) : contentAvailable(c)
           /\ \E c \in ChildSet(R) : hasUnloadedContent(c) /\ c \in Requested

\* what C5 asks after selectTiles
C5_Outcome(R) ==
    /\ Selected = ChildSet(R)
    /\ Len(selectedTiles) = Cardinality(ChildSet(R))
    /\ Ascending(selectedTiles)
    /\ R \notin Selected
    /\ requestedTiles = <<>>

\* the tiles R C5 is about
C5_Case(R) ==
    /\ Visited(R) /\ isVisible(World, R)
    /\ ~hasEmptyContent(R) /\ refine[R] = "REPLACE" /\ canTraverse(World, R)
    /\ \A c \in ChildSet(R) :
           isVisible(World, c) /\ contentAvailable(c) /\ ~canTraverse(World, c)

\* C5 as stated, for the tiles R this frame's traversal visited: in base mode,
\* when all children of a visible non-empty REPLACE tile R that can traverse
\* are visible, available and cannot traverse, selectedTiles is exactly R's
\* children in ascending distance, R is not selected and requestedTiles is
\* empty.
C5_ChildrenReplaceParent ==
    (TraversalRan /\ ~skipLevelOfDetail) =>
        \A R \in Tiles : C5_Case(R) => C5_Outcome(R)

\* C5: the same for R the root, when moreover the content of R and of its
\* children is loaded and not expired and no child's content is outside the
\* view.
C5_ChildrenReplaceLoadedRoot ==
    (/\ TraversalRan
     /\ ~skipLevelOfDetail
     /\ C5_Case(Root)
     /\ contentState[Root] = "READY"
     /\ \A c \in ChildSet(Root) : contentState[c] = "READY" /\ contentNotOutside(c))
    => C5_Outcome(Root)

\* the root has refined to two or more loaded children
C5_Witness ==
    /\ TraversalRan
    /\ ~skipLevelOfDetail
    /\ C5_Case(Root)
    /\ contentState[Root] = "READY"
    /\ \A c \in ChildSet(Root) : contentState[c] = "READY" /\ contentNotOutside(c)
    /\ Len(selectedTiles) >= 2

\* C6: in the skip modes, once executeTraversal has called selectDesiredTile
\* on a tile without available content that has an ancestor with available
\* content, the nearest such ancestor has _shouldSelect set for the rest of
\* the frame and is in selectedTiles when selectTiles returns unless its
\* content is outside the view; selectDescendants is called only from
\* selectDesiredTile, on a tile that has no available content and no ancestor
\* with available content.
C6_NearestLoadedAncestorSelected ==
    (skipLevelOfDetail /\ InFrame) =>
        /\ \A t \in calls.selectDesiredTile :
              (~contentAvailable(t) /\ NearestAvailable(t) # NoTile) =>
                  /\ tile[NearestAvailable(t)].shouldSelect
                  /\ (pc = "returned" /\ contentNotOutside(NearestAvailable(t)))
                        => NearestAvailable(t) \in Selected
        /\ \A t \in calls.selectDescendants :
              ~contentAvailable(t) /\ NearestAvailable(t) = NoTile
        /\ calls.selectDescendants \subseteq calls.selectDesiredTile

\* an unloaded tile is stood for by an ancestor that is not its parent
C6_Witness ==
    /\ TraversalRan
    /\ skipLevelOfDetail
    /\ \E t \in calls.selectDesiredTile :
           /\ ~contentAvailable(t)
           /\ NearestAvailable(t) \notin {NoTile, parent[t]}
           /\ NearestAvailable(t) \in Selected

C9_RequestedUnloadedOrExpired ==
    InFrame =>
        \A t \in Requested :
            /\ hasUnloadedContent(t) \/ contentExpired(t)
            /\ tile[t].requestedFrame = frameState.frameNumber

\* a frame has requested an expired tile and an unloaded one
C9_Witness ==
    /\ pc = "returned"
    /\ \E t \in Requested : contentExpired(t) /\ kind[t] = "content"
    /\ \E t \in Requested : hasUnloadedContent(t)

\* C10: no tile is passed to cache.touch twice in a frame, and no tile's
\* _touchedFrame is greater than the frame number.
C10_TouchedOncePerFrame ==
    /\ NoDuplicates(cacheTouches)
    /\ \A t \in Tiles : tile[t].touchedFrame <= frameState.frameNumber

\* a tile touched by selectDescendants has been visited in the same frame
C10_Witness ==
    /\ TraversalRan
    /\ \E r \in calls.selectDescendants :
           \E t \in Descendants(r) \cap Selected : Visited(t) /\ t \in Range(cacheTouches)

Updated(t) == calls.updateVisibility[t] > 0

\* C12 as stated: after selectTiles returns, for every tile t updated this
\* frame, the _priorityDistance of t's _priorityDistanceHolder is at most the
\* _priorityDistance of t.
C12_HolderPriorityNotAbove ==
    pc = "returned" =>
        \A t \in Tiles : Updated(t) =>
            tile[tile[t].priorityDistanceHolder].priorityDistance
                <= tile[t].priorityDistance

\* C13: every tile selectDescendants(r) looks at (and so every tile it
\* updates, touches or selects) has a depth of at most r's depth plus
\* descendantSelectionDepth, and the descendant stack is empty whenever
\* selectDescendants is not running.
C13_DescendantsWithinDepth ==
    /\ \A e \in calls.descendantsExamined :
           Depth(e[2]) <= Depth(e[1]) + descendantSelectionDepth
    /\ descendantStack = <<>>

\* selectDescendants went down to an unloaded tile two levels below its root
\* and stopped there, above a visible tile whose content is loaded
C13_Witness ==
    /\ pc = "returned"
    /\ \E e \in calls.descendantsExamined :
           /\ Depth(e[2]) = Depth(e[1]) + descendantSelectionDepth
           /\ isVisible(World, e[2])
           /\ ~contentAvailable(e[2])
           /\ \E d \in ChildSet(e[2]) :
                  /\ isVisible(World, d) /\ contentAvailable(d)
                  /\ <<e[1], d>> \notin calls.descendantsExamined

\* what a pass of this frame can have done to a tile
Descended(d) ==
    \/ Visited(d)
    \/ Updated(d)
    \/ tile[d].touchedFrame = frameState.frameNumber
    \/ tile[d].requestedFrame = frameState.frameNumber
    \/ tile[d].selectedFrame = frameState.frameNumber

\* C14 as stated: while selectTiles runs and when it has returned, no proper
\* descendant of an external-tileset tile whose content is expired has been
\* visited, updated, touched, requested or selected in this frame.
C14_ExpiredSubtreeLeftAlone ==
    InFrame =>
        \A t \in Tiles : (kind[t] = "tileset" /\ contentExpired(t)) =>
            \A d \in Descendants(t) : ~Descended(d)

\* selectTiles has returned from a call that found the root visible and the
\* error of the whole tree within the budget
TreeMeetsBudget ==
    /\ pc = "returned"
    /\ ~debugFreezeFrame
    /\ isVisible(World, Root)
    /\ frameState.rootScreenSpaceError <= options.maximumScreenSpaceError

\* C15 as stated: when the root is visible and its screen space error is at
\* or below maximumScreenSpaceError, selectTiles leaves selectedTiles and
\* requestedTiles empty and returns true.
C15_TreeMeetsBudgetReturnsTrue ==
    TreeMeetsBudget =>
        /\ selectedTiles = <<>>
        /\ requestedTiles = <<>>
        /\ returnValue = "true"

\* C15: when the root is visible and its screen space error is at or below
\* maximumScreenSpaceError, selectTiles leaves selectedTiles and
\* requestedTiles empty and returns undefined.
C15_TreeMeetsBudgetReturnsUndefined ==
    TreeMeetsBudget =>
        /\ selectedTiles = <<>>
        /\ requestedTiles = <<>>
        /\ returnValue = "undefined"

\* the tree meets the budget in the frame after one that selected a tile and
\* requested another
C15_Witness ==
    /\ TreeMeetsBudget
    /\ frameState.frameNumber >= 2
    /\ \E t \in Tiles : tile[t].selectedFrame = frameState.frameNumber - 1
    /\ \E t \in Tiles : tile[t].requestedFrame = frameState.frameNumber - 1

\* the camera's view of the root makes selectTiles return early
ReturnsEarly ==
    \/ ~(frameState.camera[Root].visible /\ frameState.camera[Root].inRequestVolume)
    \/ frameState.rootScreenSpaceError <= options.maximumScreenSpaceError

\* C16: a call of selectTiles, debugFreezeFrame not set, that finds the root
\* not visible or the root's error within maximumScreenSpaceError returns
\* undefined with selectedTiles, selectedTilesToStyle, requestedTiles and
\* emptyTiles empty and hasMixedContent false, whatever they held before, and
\* with the fields of every tile other than the root and every children
\* array as they were before the call.
C16_EarlyReturnLeavesNothing ==
    [][(pc = "call" /\ ~debugFreezeFrame /\ ReturnsEarly) =>
          /\ pc' = "returned"
          /\ returnValue' = "undefined"
          /\ selectedTiles' = <<>>
          /\ selectedTilesToStyle' = <<>>
          /\ requestedTiles' = <<>>
          /\ emptyTiles' = <<>>
          /\ hasMixedContent' = FALSE
          /\ \A t \in Tiles \ {Root} : tile'[t] = tile[t]
          /\ children' = children]_vars

\* selectTiles has returned early, the root out of view, from the frame after
\* one that selected a tile below the root and requested another
C16_Witness ==
    /\ pc = "returned"
    /\ returnValue = "undefined"
    /\ ~debugFreezeFrame
    /\ ~isVisible(World, Root)
    /\ frameState.frameNumber >= 2
    /\ \E t \in Tiles \ {Root} : tile[t].selectedFrame = frameState.frameNumber - 1
    /\ \E t \in Tiles \ {Root} : tile[t].requestedFrame = frameState.frameNumber - 1

\* C17: a call of selectTiles with debugFreezeFrame set empties
\* requestedTiles and returns, leaving selectedTiles, selectedTilesToStyle,
\* emptyTiles, hasMixedContent, the fields of every tile and every children
\* array as they were before the call; this holds of every frozen call, so
\* of any number of them in a row.
C17_FrozenFrameKeepsSelection ==
    [][(pc = "call" /\ debugFreezeFrame) =>
          /\ pc' = "returned"
          /\ requestedTiles' = <<>>
          /\ UNCHANGED <<selectedTiles, selectedTilesToStyle, emptyTiles,
                         hasMixedContent, tile, children>>]_vars

\* a frozen call has returned, keeping the selection of the frame before and
\* dropping its requests
C17_Witness ==
    /\ pc = "returned"
    /\ debugFreezeFrame
    /\ selectedTiles # <<>>
    /\ requestedTiles = <<>>
    /\ \A t \in Selected : tile[t].selectedFrame = frameState.frameNumber - 1
    /\ \E t \in Tiles : /\ tile[t].requestedFrame = frameState.frameNumber - 1
                         /\ hasUnloadedContent(t)

\* C18 as stated: within one call of selectTiles, tile.updateVisibility runs
\* at most once on each tile.
C18_VisibilityOncePerTile ==
    \A t \in Tiles : calls.updateVisibility[t] <= 1

\* C19: every call of selectTiles returns; when it has returned, the
\* traversal and selection stack, the ancestor stack, the descendant stack
\* and the empty-traversal stack are empty; and traverseAndSelect is never
\* left with an empty stack under a waiting tile whose _stackLength is not 0.
C19_SelectTilesTerminates ==
    /\ [](pc = "returned" =>
            /\ stack = <<>>
            /\ ancestorStack = <<>>
            /\ descendantStack = <<>>
            /\ emptyStack = <<>>)
    /\ []~Stuck
    /\ (pc = "call") ~> (pc = "returned")

\* a skip frame has returned after a tile waited on the ancestor stack, above
\* a stack that was not empty, for its children to be done
C19_Witness ==
    /\ TraversalRan
    /\ skipLevelOfDetail
    /\ \E t \in Selected :
           /\ Marked(t) /\ canTraverse(World, t)
           /\ tile[t].stackLength > 0
           /\ \E c \in ChildSet(t) : isVisible(World, c)

\* a visited tile with content of its own that refines by addition
VisitedAdd(t) == Visited(t) /\ refine[t] = "ADD" /\ ~hasEmptyContent(t)

\* what executeTraversal does with each additive tile it visits
AddTilesSelectedAndRequested ==
    \A t \in Tiles : VisitedAdd(t) =>
        /\ (contentAvailable(t) /\ contentNotOutside(t)) => t \in Selected
        /\ (hasUnloadedContent(t) \/ contentExpired(t)) => t \in Requested

\* the root refines by addition and it and all its children are visible and loaded
AddRootAllLoaded ==
    /\ refine[Root] = "ADD"
    /\ contentAvailable(Root)
    /\ \A c \in ChildSet(Root) : isVisible(World, c) /\ contentAvailable(c)

\* C20 as stated: in base mode, every non-empty ADD tile visited by
\* executeTraversal is selected if its content is available and not OUTSIDE,
\* and requested if its content is unloaded or expired; and with an ADD root
\* and all children visible and loaded, the root and all its children are in
\* selectedTiles.
C20_AddRootAndChildrenSelected ==
    (TraversalRan /\ ~skipLevelOfDetail) =>
        /\ AddTilesSelectedAndRequested
        /\ AddRootAllLoaded => ({Root} \cup ChildSet(Root)) \subseteq Selected

\* C20: in base mode, every non-empty ADD tile visited by executeTraversal is
\* selected if its content is available and not OUTSIDE, and requested if its
\* content is unloaded or expired, whether or not it or its parent refines;
\* and with an ADD root and all children visible and loaded, the root is in
\* selectedTiles if its content is not OUTSIDE, and, when the root can
\* traverse, so is every child whose content is not OUTSIDE and that is an
\* ADD tile or does not itself refine.
C20_AddTilesSelectedAndRequested ==
    (TraversalRan /\ ~skipLevelOfDetail) =>
        /\ AddTilesSelectedAndRequested
        /\ AddRootAllLoaded =>
               /\ contentNotOutside(Root) => Root \in Selected
               /\ canTraverse(World, Root) =>
                      \A c \in ChildSet(Root) :
                          (/\ contentNotOutside(c)
                           /\ refine[c] = "ADD" \/ ~tile[c].refines) => c \in Selected

\* a base frame has returned with an additive root that refines and is
\* selected beside its children, one of them additive and refining in turn,
\* and with an additive tile that is requested
C20_Witness ==
    /\ TraversalRan
    /\ ~skipLevelOfDetail
    /\ AddRootAllLoaded
    /\ tile[Root].refines
    /\ ChildSet(Root) # {}
    /\ ({Root} \cup ChildSet(Root)) \subseteq Selected
    /\ \E c \in ChildSet(Root) : VisitedAdd(c) /\ tile[c].refines
    /\ \E t \in Tiles : VisitedAdd(t) /\ hasUnloadedContent(t) /\ t \in Requested

\* the nearest proper ancestor of t whose content is available, if any
RECURSIVE NearestAvailableAncestor(_)
NearestAvailableAncestor(t) ==
    IF parent[t] = NoTile THEN NoTile
    ELSE IF contentAvailable(parent[t]) THEN parent[t]
    ELSE NearestAvailableAncestor(parent[t])

\* C21: every tile visited by executeTraversal in a frame has, after its
\* visit, _ancestorWithContentAvailable equal to its nearest proper ancestor
\* whose content is available, or undefined when it has no such ancestor.
C21_NearestAvailableAncestorLinked ==
    InFrame =>
        \A t \in Tiles : Visited(t) =>
            tile[t].ancestorWithContentAvailable = NearestAvailableAncestor(t)

\* a visited tile is linked past its parent, whose content is not available,
\* to an ancestor further up, and another visited tile below an ancestor has
\* no link at all
C21_Witness ==
    /\ TraversalRan
    /\ \E t \in Tiles :
           /\ Visited(t)
           /\ parent[t] # NoTile /\ ~contentAvailable(parent[t])
           /\ tile[t].ancestorWithContentAvailable \in Ancestors(t) \ {parent[t]}
    /\ \E t \in Tiles :
           /\ Visited(t)
           /\ parent[t] # NoTile
           /\ tile[t].ancestorWithContentAvailable = NoTile

\* p has loaded content or was requested during the current frame
LoadedOrRequested(p) ==
    \/ ~hasEmptyContent(p) /\ ~contentUnloaded(p)
    \/ tile[p].requestedFrame = frameState.frameNumber

RECURSIVE NearestAncestorWithContent(_)
NearestAncestorWithContent(t) ==
    IF parent[t] = NoTile THEN NoTile
    ELSE IF LoadedOrRequested(parent[t]) THEN parent[t]
    ELSE NearestAncestorWithContent(parent[t])

\* C22 as stated: every tile visited by executeTraversal in a frame has, after
\* its visit, _ancestorWithContent equal to its nearest proper ancestor that
\* has loaded content or was requested during the current frame, or undefined
\* when there is none; an empty or external-tileset ancestor that was not
\* requested is not chosen.
C22_NearestAncestorWithContentLinked ==
    InFrame =>
        \A t \in Tiles : Visited(t) =>
            tile[t].ancestorWithContent = NearestAncestorWithContent(t)

ToStyle == Range(selectedTilesToStyle)

\* a step of the call appends t to selectedTiles
NewlySelected(t) == t \in Range(selectedTiles') \ Selected

\* C23: selectedTilesToStyle is always a subset of selectedTiles; a tile that
\* a step of selectTiles selects is placed in selectedTilesToStyle exactly when
\* its featurePropertiesDirty flag was set or its _selectedFrame was below
\* frameNumber - 1; the flag is cleared, and lastStyleTime zeroed when it was
\* set; and a tile selected in the preceding frame whose properties are clean
\* is not placed in selectedTilesToStyle.
C23_RestyledWhenDirtyOrNew ==
    /\ [](ToStyle \subseteq Selected)
    /\ [][\A t \in Tiles : NewlySelected(t) =>
            /\ t \in Range(selectedTilesToStyle') <=>
                   \/ tile[t].featurePropertiesDirty
                   \/ tile[t].selectedFrame < frameState.frameNumber - 1
            /\ ~tile'[t].featurePropertiesDirty
            /\ tile[t].featurePropertiesDirty => tile'[t].lastStyleTime = 0
            /\ (/\ tile[t].selectedFrame = frameState.frameNumber - 1
                /\ ~tile[t].featurePropertiesDirty)
                   => t \notin Range(selectedTilesToStyle')]_vars

\* a call has returned in which a styled tile whose properties had changed
\* was selected again and handed back for styling with lastStyleTime zeroed,
\* beside a tile selected in the preceding frame that is not restyled
C23_Witness ==
    /\ TraversalRan
    /\ frameState.frameNumber = MaxFrame
    /\ \E t \in Selected :
           /\ t \in ToStyle
           /\ t \in lastSelected.tiles
           /\ tile[t].lastStyleTime = 0
    /\ \E t \in Selected :
           /\ t \notin ToStyle
           /\ t \in lastSelected.tiles
           /\ tile[t].lastStyleTime = styleTime

\* how many times t occurs in the sequence s
Occurrences(s, t) == Cardinality({i \in 1..Len(s) : s[i] = t})

\* C24: after a call of selectTiles, every tile in emptyTiles is an empty tile
\* or an external-tileset tile, and every empty or external-tileset tile that
\* executeTraversal visited in the frame is in emptyTiles exactly once.
C24_EmptyTilesListed ==
    pc = "returned" =>
        /\ \A t \in Range(emptyTiles) : hasEmptyContent(t)
        /\ \A t \in Tiles : (Visited(t) /\ hasEmptyContent(t)) =>
               Occurrences(emptyTiles, t) = 1

\* the traversal visited an empty tile below the root, beside tiles with
\* content of their own, and listed it
C24_Witness ==
    /\ TraversalRan
    /\ \E t \in Tiles \ {Root} :
           /\ Visited(t) /\ hasEmptyContent(t)
           /\ emptyTiles = <<t>>
           /\ \E c \in ChildSet(t) : Visited(c)
    /\ \E u \in Tiles : Visited(u) /\ ~hasEmptyContent(u)

\* the screen space error canTraverse reads on t when executeEmptyTraversal(r)
\* reaches it: r has just been updated by its parent's visit, a tile below r
\* still has the value of its last update
ErrorSeenBelow(t, r) ==
    IF t = r THEN frameState.camera[t].screenSpaceError ELSE tile[t].screenSpaceError

\* the descent from r goes on through t
DescentGoesOn(t, r) ==
    /\ hasEmptyContent(t)
    /\ ChildSet(t) # {}
    /\ IF kind[t] = "tileset" THEN ~contentExpired(t)
       ELSE ErrorSeenBelow(t, r) > options.maximumScreenSpaceError

\* every tile at which the descent from r stops, at t or below, has available content
RECURSIVE AllStopsAvailable(_, _)
AllStopsAvailable(t, r) ==
    IF DescentGoesOn(t, r)
    THEN \A c \in ChildSet(t) : AllStopsAvailable(c, r)
    ELSE contentAvailable(t)

\* a step in which executeEmptyTraversal(r) ran and returned true, or false
EmptyTraversalReturnsTrue(r) ==
    r \in calls'.emptyTraversalTrue /\ r \notin calls.emptyTraversalTrue
EmptyTraversalReturnsFalse(r) ==
    r \in calls'.emptyTraversalFalse /\ r \notin calls.emptyTraversalFalse

\* what executeEmptyTraversal returns
EmptyTraversalResult ==
    \A r \in Tiles :
        /\ EmptyTraversalReturnsTrue(r) => AllStopsAvailable(r, r)
        /\ EmptyTraversalReturnsFalse(r) => ~AllStopsAvailable(r, r)

\* C25 as stated: executeEmptyTraversal(root) returns true iff every tile at
\* which the descent stops has contentAvailable; and when it returned false
\* for an empty child, the non-empty REPLACE parent in base mode has _refines
\* false and is selected instead of its children.
C25_ParentSelectedInsteadOfChildren ==
    /\ [][EmptyTraversalResult]_vars
    /\ [](TraversalRan =>
            \A r \in calls.emptyTraversalFalse :
                /\ ~tile[parent[r]].refines
                /\ parent[r] \in Selected
                /\ ChildSet(parent[r]) \cap Selected = {})

\* C25: executeEmptyTraversal(root) returns true iff every tile at which the
\* descent stops (a tile that is not empty, or is empty but cannot traverse)
\* has contentAvailable; and when it returned false for an empty child, the
\* non-empty REPLACE parent in base mode has _refines false, is selected if its
\* content is available and not OUTSIDE and its own parent refines (or it is
\* the root), and none of its children other than ADD tiles is selected.
C25_ParentHeldBackByEmptySubtree ==
    /\ [][EmptyTraversalResult]_vars
    /\ [](TraversalRan =>
            \A r \in calls.emptyTraversalFalse :
                /\ ~tile[parent[r]].refines
                /\ (/\ contentAvailable(parent[r])
                    /\ contentNotOutside(parent[r])
                    /\ ParentRefines(parent[r])) => parent[r] \in Selected
                /\ \A c \in ChildSet(parent[r]) \cap Selected : refine[c] = "ADD")

\* a loaded tile is selected in place of its children because the descent
\* through two nested empty tiles stopped at an unloaded tile, while the
\* descent from another empty tile found everything loaded
C25_Witness ==
    /\ TraversalRan
    /\ \E r \in calls.emptyTraversalFalse :
           /\ parent[r] \in Selected
           /\ ChildSet(parent[r]) \cap Selected = {}
           /\ \E e \in ChildSet(r) :
                  /\ hasEmptyContent(e)
                  /\ tile[e].screenSpaceError > options.maximumScreenSpaceError
                  /\ \E c \in ChildSet(e) : ~contentAvailable(c)
    /\ frameState.frameNumber = MaxFrame

\* meetsScreenSpaceErrorEarly as the source defines it
MeetsScreenSpaceErrorEarly(t) ==
    /\ parent[t] # NoTile
    /\ kind[parent[t]] # "tileset"
    /\ refine[parent[t]] = "ADD"
    /\ frameState.camera[t].screenSpaceErrorOfParentError <= options.maximumScreenSpaceError

\* C26 as stated: during selectTiles, a tile whose parent is defined, is not
\* an external-tileset tile and refines by ADD, and whose screen space error
\* computed with the parent's geometric error is within
\* maximumScreenSpaceError, is marked not visible when it is updated, and is
\* neither pushed on the traversal stack nor selected.
C26_EarlyErrorHidesTile ==
    InFrame =>
        \A t \in Tiles : (Updated(t) /\ MeetsScreenSpaceErrorEarly(t)) =>
            /\ ~tile[t].visible
            /\ t \notin Range(stack)
            /\ ~Visited(t)
            /\ t \notin Selected

\* executeTraversal is about to visit T, and T can traverse
VisitTraverses(T) ==
    /\ pc = "traverse"
    /\ stack # <<>>
    /\ T = Top(stack)
    /\ canTraverse(World, T)

\* the tiles as updateAndPushChildren(T) leaves them in that visit
AfterUpdateAndPushChildren(T) ==
    updateAndPushChildren(updateTileAncestorContentLinks(World, T), T, Pop(stack)).w.tile

\* the holder updateAndPushChildren(T) hands the minimum to
HolderFor(T) ==
    IF T = Root \/ tile[T].wasMinChild THEN tile[T].priorityDistanceHolder ELSE T

\* in the tiles after, m is the one child of T marked _wasMinChild, none of
\* the children in S has a smaller _priorityDistance, and every child of T is
\* linked to the holder, which has taken m's _priorityDistance
MinimumLinked(after, T, S, m) ==
    /\ \A c \in S : after[m].priorityDistance <= after[c].priorityDistance
    /\ \A c \in ChildSet(T) : after[c].wasMinChild <=> c = m
    /\ \A c \in ChildSet(T) : after[c].priorityDistanceHolder = HolderFor(T)
    /\ after[HolderFor(T)].priorityDistance = after[m].priorityDistance

SmallestChildLinked(after, T) ==
    \E m \in ChildSet(T) : MinimumLinked(after, T, ChildSet(T), m)

\* C27 as stated: after updateAndPushChildren(tile) on a tile with at least
\* one child, the child with the smallest _priorityDistance among the tile's
\* children is the one marked _wasMinChild, every child's
\* _priorityDistanceHolder is the same holder, whose _priorityDistance is the
\* minimum child's, and the holder is tile._priorityDistanceHolder when the
\* tile is the root or was itself a minimum child, and the tile otherwise.
C27_MinimumChildLinked ==
    \A T \in Tiles : VisitTraverses(T) =>
        SmallestChildLinked(AfterUpdateAndPushChildren(T), T)

\* the children of T that updateAndPushChildren(T) compares: the visible ones,
\* and all of them when T must check that it refines or loadSiblings is set
Compared(after, T) ==
    {c \in ChildSet(T) :
        \/ after[c].visible /\ after[c].inRequestVolume
        \/ checkRefines(T)
        \/ options.loadSiblings}

SmallestComparedChildLinked(after, T) ==
    IF Compared(after, T) = {}
    THEN \A c \in ChildSet(T) :
             ~after[c].wasMinChild /\ after[c].priorityDistanceHolder = c
    ELSE \E m \in Compared(after, T) : MinimumLinked(after, T, Compared(after, T), m)

\* C27: after updateAndPushChildren(tile), among the children that are
\* visible, or all the children when the tile checks that it refines (base
\* mode, non-empty REPLACE) or loadSiblings is set, the child with the
\* smallest _priorityDistance is the one marked _wasMinChild, every child's
\* _priorityDistanceHolder is the same holder, whose _priorityDistance is the
\* minimum child's, and the holder is tile._priorityDistanceHolder when the
\* tile is the root or was itself a minimum child, and the tile otherwise;
\* when no child is compared, no child is marked and each child stays its own
\* holder.
C27_MinimumComparedChildLinked ==
    \A T \in Tiles : VisitTraverses(T) =>
        SmallestComparedChildLinked(AfterUpdateAndPushChildren(T), T)

\* a tile that was itself a minimum child has been visited and has handed the
\* priority of its nearest visible child, not the nearest of all its
\* children, to the holder it shares with its siblings
C27_Witness ==
    /\ pc \in {"traverse", "selection", "returned"}
    /\ \E T \in Tiles \ {Root} :
           /\ Visited(T)
           /\ tile[T].wasMinChild
           /\ \E m \in ChildSet(T) :
                  /\ tile[m].wasMinChild
                  /\ tile[m].priorityDistanceHolder = tile[T].priorityDistanceHolder
                  /\ tile[m].priorityDistanceHolder \notin {m, T}
    /\ \E T \in Tiles :
           /\ Visited(T)
           /\ \E m, c \in ChildSet(T) :
                  /\ tile[m].wasMinChild /\ ~isVisible(World, c)
                  /\ Updated(c)
                  /\ tile[c].priorityDistance < tile[m].priorityDistance

\* this step is the visit by executeTraversal, in a skip mode, of a non-empty
\* REPLACE tile T that is not in the base traversal and goes on refining
SkippedVisit(T) ==
    /\ skipLevelOfDetail
    /\ pc = "traverse"
    /\ stack # <<>>
    /\ T = Top(stack)
    /\ refine[T] = "REPLACE"
    /\ ~hasEmptyContent(T)
    /\ ~inBaseTraversal([tile |-> tile'], T, baseScreenSpaceErrorOf)
    /\ ~(~tile'[T].refines /\ ParentRefines(T))

\* the step appends T to requestedTiles
RequestedByStep(T) == Occurrences(requestedTiles', T) > Occurrences(requestedTiles, T)

\* T has an _ancestorWithContent a, an error below a's error divided by
\* skipScreenSpaceErrorFactor, and a depth above a's depth plus skipLevels
BeyondSkippingThreshold(T, a) ==
    /\ a # NoTile
    /\ tile'[T].screenSpaceError * options.skipScreenSpaceErrorFactor
          < tile'[a].screenSpaceError
    /\ Depth(T) > Depth(a) + options.skipLevels

\* C28 as stated: in the skip-LOD modes, a visited non-empty REPLACE tile that
\* is not in the base traversal and has not stopped refining is added to
\* requestedTiles by its own visit iff reachedSkippingThreshold holds; with
\* immediatelyLoadDesiredLevelOfDetail no such tile is requested by its visit.
C28_RequestedIffThresholdReached ==
    [][\A T \in Tiles : SkippedVisit(T) =>
          /\ RequestedByStep(T) <=>
                 /\ ~options.immediatelyLoadDesiredLevelOfDetail
                 /\ BeyondSkippingThreshold(T, tile'[T].ancestorWithContent)
          /\ options.immediatelyLoadDesiredLevelOfDetail => ~RequestedByStep(T)]_vars

\* C28: in the skip-LOD modes, a visited non-empty REPLACE tile that is not in
\* the base traversal and has not stopped refining is added to requestedTiles
\* by its own visit iff reachedSkippingThreshold holds and its content is
\* unloaded or expired; with immediatelyLoadDesiredLevelOfDetail no such tile
\* is requested by its visit.
C28_UnloadedRequestedIffThresholdReached ==
    [][\A T \in Tiles : SkippedVisit(T) =>
          /\ RequestedByStep(T) <=>
                 /\ ~options.immediatelyLoadDesiredLevelOfDetail
                 /\ BeyondSkippingThreshold(T, tile'[T].ancestorWithContent)
                 /\ hasUnloadedContent(T) \/ contentExpired(T)
          /\ options.immediatelyLoadDesiredLevelOfDetail => ~RequestedByStep(T)]_vars

\* a frame without immediate loading has visited a tile two levels below a
\* coarse ancestor with content, past a parent that was skipped and left
\* unrequested, and has requested the tile although it goes on refining
C28_Witness ==
    /\ TraversalRan
    /\ skipLevelOfDetail /\ ~options.immediatelyLoadDesiredLevelOfDetail
    /\ \E T \in Requested :
           /\ Visited(T) /\ tile[T].refines
           /\ refine[T] = "REPLACE" /\ ~hasEmptyContent(T)
           /\ tile[T].ancestorWithContent \in Ancestors(T) \ {parent[T]}
           /\ Visited(parent[T]) /\ tile[parent[T]].refines
           /\ parent[T] \notin Requested
           /\ hasUnloadedContent(parent[T])

\* traverseAndSelect pops t: it is the root, or a visible child of a tile the
\* pass popped and could traverse
RECURSIVE Encountered(_)
Encountered(t) ==
    \/ t = Root
    \/ /\ isVisible(World, t)
       /\ canTraverse(World, parent[t])
       /\ Encountered(parent[t])

\* a REPLACE tile with _shouldSelect that the selection pass pops
EncounteredMarked(t) == Marked(t) /\ Encountered(t)

\* hasMixedContent is true iff a marked REPLACE tile was popped while a marked
\* REPLACE tile that can traverse was waiting on the ancestor stack
MixedContentWhenNested ==
    hasMixedContent <=>
        \E d \in Tiles :
            /\ EncounteredMarked(d)
            /\ \E a \in Ancestors(d) : EncounteredMarked(a) /\ canTraverse(World, a)

\* _finalResolution is false on a selected REPLACE tile iff a marked REPLACE
\* tile was popped strictly inside its subtree
FinalResolutionUnlessSuperseded ==
    \A t \in Selected : refine[t] = "REPLACE" =>
        (~tile[t].finalResolution <=> \E d \in Descendants(t) : EncounteredMarked(d))

\* C29 as stated: after traverseAndSelect, a selected REPLACE tile has
\* _finalResolution = false iff some REPLACE tile with _shouldSelect was
\* encountered strictly inside its visible subtree during the selection pass;
\* a selected REPLACE tile with no selected REPLACE descendant keeps
\* _finalResolution = true; and hasMixedContent is true iff some selected
\* REPLACE tile was encountered while the ancestor stack was not empty.
C29_FinalResolutionOfSelected ==
    (TraversalRan /\ skipLevelOfDetail) =>
        /\ FinalResolutionUnlessSuperseded
        /\ \A t \in Selected :
               (/\ refine[t] = "REPLACE"
                /\ \A d \in Descendants(t) \cap Selected : refine[d] # "REPLACE")
               => tile[t].finalResolution
        /\ MixedContentWhenNested

\* C29: after traverseAndSelect, a REPLACE tile that the selection pass itself
\* selected (a tile in selectedTiles with _shouldSelect) has _finalResolution
\* = false iff some REPLACE tile with _shouldSelect was encountered strictly
\* inside its visible subtree during the pass; such a tile that cannot
\* traverse keeps _finalResolution = true; and hasMixedContent is true iff
\* some REPLACE tile with _shouldSelect was encountered while the ancestor
\* stack was not empty.
C29_FinalResolutionOfMarked ==
    (TraversalRan /\ skipLevelOfDetail) =>
        /\ \A t \in Selected : Marked(t) =>
               /\ ~tile[t].finalResolution <=>
                      \E d \in Descendants(t) : EncounteredMarked(d)
               /\ ~canTraverse(World, t) => tile[t].finalResolution
        /\ MixedContentWhenNested

\* the selection pass emitted a loaded tile under a loaded ancestor: the
\* ancestor is not at final resolution, the tile below is, and the content
\* is mixed
C29_Witness ==
    /\ TraversalRan
    /\ skipLevelOfDetail
    /\ hasMixedContent
    /\ \E t \in Selected :
           /\ refine[t] = "REPLACE" /\ ~tile[t].finalResolution
           /\ \E d \in Descendants(t) \cap Selected :
                  refine[d] = "REPLACE" /\ tile[d].finalResolution

\* C30 as stated: within one call of selectTiles no tile is appended to
\* selectedTiles more than once, in any mode; a child that selectDescendants
\* selected for its unloaded parent is not selected again when it is visited
\* and emitted by traverseAndSelect.
C30_SelectedOnce ==
    InFrame => NoDuplicates(selectedTiles)

\* tilesets with or without loadSiblings, with empty tiles below the root and
\* a tile out of the view or out of the request volume
SiblingScenarios ==
    {D \cup L \cup {<<"empty", t>> : t \in A} :
        D \in Scenarios({"hidden", "outOfVolume"}),
        L \in {{}, {<<"loadSiblings", Root>>}},
        A \in SUBSET (Tiles \ {Root})}

SpecSiblings == InitFrom(AllModes, SiblingScenarios) /\ [][Next]_vars

\* C31 as stated: within one call of selectTiles no tile is appended to
\* requestedTiles more than once, in any mode and with or without
\* loadSiblings; a tile that sibling loading, executeEmptyTraversal and its
\* own visit all reach is requested only once.
C31_RequestedOnce ==
    InFrame => NoDuplicates(requestedTiles)

\* every tile is a REPLACE tile with content of its own, the root's content is
\* available and no content is out of the view
PlainReplaceTileset ==
    /\ \A t \in Tiles : refine[t] = "REPLACE" /\ kind[t] = "content"
    /\ contentAvailable(Root)
    /\ \A t \in Tiles : contentNotOutside(t)

\* t is selected and stands for itself
CoveredBySelf(t) ==
    /\ t \in Selected
    /\ Ancestors(t) \cap Selected = {}
    /\ ~tile[t].refines

\* a proper ancestor of t is selected in its place
CoveredByAncestor(t) ==
    /\ t \notin Selected
    /\ Ancestors(t) \cap Selected # {}

\* t refines: its visible children stand for it
CoveredByChildren(t) ==
    /\ t \notin Selected
    /\ Ancestors(t) \cap Selected = {}
    /\ tile[t].refines
    /\ \E c \in ChildSet(t) : isVisible(World, c)

\* C32: in base mode over a tileset of REPLACE tiles with content, the root's
\* content available and no content out of the view, when selectTiles has
\* returned every visited tile is selected, or has a selected proper
\* ancestor, or refines with a visible child, and only one of the three.
C32_NoHolesInBaseMode ==
    (TraversalRan /\ ~skipLevelOfDetail /\ PlainReplaceTileset) =>
        \A t \in Tiles : Visited(t) =>
            \/ CoveredBySelf(t)
            \/ CoveredByAncestor(t)
            \/ CoveredByChildren(t)

\* the root refines, one of its children refines in turn and another is
\* selected, and under a selected tile a visited child is covered by it
C32_Witness ==
    /\ TraversalRan /\ ~skipLevelOfDetail /\ PlainReplaceTileset
    /\ CoveredByChildren(Root)
    /\ \E t \in Tiles \ {Root} : Visited(t) /\ CoveredBySelf(t)
    /\ \E t \in Tiles \ {Root} : Visited(t) /\ CoveredByAncestor(t)

\* base mode over tilesets seen whole by a camera that does not move, with
\* any set of empty tiles below the root and at most one tile whose error is
\* within the budget
ConvergeScenarios ==
    {D \cup {<<"empty", t>> : t \in A} :
        D \in Scenarios({"fine"}),
        A \in SUBSET (Tiles \ {Root})}

\* the caller has made the content of every requested tile available
RequestsServed == \A t \in Requested : contentState[t] = "READY"

\* the next frame starts once the requests of the last one are served
AdvanceFrameWhenServed == RequestsServed /\ AdvanceFrame

NextConverge ==
    \/ AdvanceFrameWhenServed
    \/ SelectTiles
    \/ ExecuteTraversalStep
    \/ ReturnFromBaseTraversal
    \/ (\E t \in Tiles : LoadContent(t))

SpecConverge == InitFrom(BaseMode, ConvergeScenarios) /\ [][NextConverge]_vars

\* selectTiles has returned with nothing left to request and every visited
\* REPLACE tile that can traverse refining
Converged ==
    /\ TraversalRan
    /\ requestedTiles = <<>>
    /\ \A t \in Tiles :
           (Visited(t) /\ refine[t] = "REPLACE" /\ canTraverse(World, t))
               => tile[t].refines

\* selectTiles has returned from a call made right after another call, with
\* nothing arrived in between and nothing requested by either: no content
\* is on its way and none will be asked for, so every later frame is this one
SteadyFrame ==
    /\ TraversalRan
    /\ lastSelected.valid
    /\ requestedTiles = <<>>

\* C33 as stated: in base mode, with a fixed camera that sees every tile, no
\* expiry, and every request served before the next call of selectTiles, a
\* frame is reached in which requestedTiles is empty and every visited
\* REPLACE tile that can traverse refines, also over trees with empty tiles
\* that have no children or whose error is within the budget; so the frame
\* the tileset settles in, after which nothing changes, is such a frame.
C33_RefinementConverges == SteadyFrame => Converged

\* ------------------------------------------- the page around the monitor
tileset == <<static, scene, contentState, expiries, frameState, tile, children, lists,
             scratch, cacheTouches, calls, stack, ancestorStack, lastAncestor,
             lastSelected, returnValue, pc>>

\* time passes
Tick ==
    /\ \E d \in 1..MaxStep : now + d <= MaxTime /\ now' = now + d
    /\ UNCHANGED <<tileset, monitor, hidden, raised>>

\* scene.preRender is raised: the listener calls update(that, time)
Update ==
    /\ Len(monitor.frameTimes) < MaxSamples
    /\ monitor' = update(monitor, hidden, now, raised).m
    /\ raised' = update(monitor, hidden, now, raised).raised
    /\ UNCHANGED <<tileset, hidden, now>>

\* the page is hidden or shown: the listener calls visibilityChanged(that)
VisibilityChanged ==
    /\ hidden' = ~hidden
    /\ monitor' = visibilityChanged(monitor, hidden')
    /\ UNCHANGED <<tileset, now, raised>>

NextMonitor == Tick \/ Update \/ VisibilityChanged

SpecMonitor == InitFrom(BaseMode, {{}}) /\ [][NextMonitor]_vars

\* lowFrameRate first, then nominalFrameRate and lowFrameRate in turn
Alternate(s) ==
    \A i \in 1..Len(s) :
        s[i] = IF i % 2 = 1 THEN "lowFrameRate" ELSE "nominalFrameRate"

\* a step that raises an event
Raises(event) == raised' = Append(raised, event)

\* a step that raises anything raises one event, nominalFrameRate when
\* _frameRateIsLow is set and lowFrameRate when it is not, and leaves
\* _needsQuietPeriod set
RaisesInTurn ==
    raised' # raised =>
        /\ Raises("lowFrameRate") \/ Raises("nominalFrameRate")
        /\ Raises("nominalFrameRate") => monitor.frameRateIsLow
        /\ Raises("lowFrameRate") => ~monitor.frameRateIsLow
        /\ monitor'.needsQuietPeriod

\* a step that clears _needsQuietPeriod empties the samples, starts a quiet
\* period at its timestamp and raises nothing
QuietPeriodRestarts ==
    (monitor.needsQuietPeriod /\ ~monitor'.needsQuietPeriod) =>
        /\ monitor'.frameTimes = <<>>
        /\ monitor'.quietPeriodEndTime = now + quietPeriod
        /\ raised' = raised

\* C34: over any sequence of update and visibilityChanged calls the events
\* raised are lowFrameRate and nominalFrameRate in turn, lowFrameRate first;
\* _frameRateIsLow is true exactly from a lowFrameRate to the next
\* nominalFrameRate, so nominalFrameRate is raised only while it is true; a
\* step raises at most one event and leaves _needsQuietPeriod set; and
\* _needsQuietPeriod is cleared only by an update that empties the samples
\* and starts a quiet period at its timestamp.
C34_EventsAlternate ==
    /\ [](Alternate(raised) /\ (monitor.frameRateIsLow <=> Len(raised) % 2 = 1))
    /\ [][RaisesInTurn /\ QuietPeriodRestarts]_vars

\* lowFrameRate, nominalFrameRate and lowFrameRate again have been raised,
\* and an update has started the quiet period after the last of them
C34_Witness ==
    /\ raised = <<"lowFrameRate", "nominalFrameRate", "lowFrameRate">>
    /\ monitor.frameRateIsLow
    /\ ~monitor.needsQuietPeriod
    /\ monitor.quietPeriodEndTime = now + quietPeriod

\* a step that records a frame's timestamp
RecordsSample ==
    /\ monitor'.frameTimes # monitor.frameTimes
    /\ monitor'.frameTimes # <<>>

\* the quiet period asked for at startup, or when the page is shown again, or
\* by an event, has been started by an update
InQuietPeriodOrAfter == ~monitor.needsQuietPeriod

\* a sample is recorded, and an event raised, only on a visible page whose
\* quiet period has been started and is over; the sample is the timestamp
RecordsAfterQuietPeriod ==
    (RecordsSample \/ raised' # raised) =>
        /\ ~hidden
        /\ InQuietPeriodOrAfter
        /\ now >= monitor.quietPeriodEndTime
        /\ monitor'.frameTimes[Len(monitor'.frameTimes)] = now

\* the page is shown again: the samples are empty and a quiet period is asked for
ShownAgainAsksQuietPeriod ==
    (hidden /\ ~hidden') =>
        /\ monitor'.needsQuietPeriod
        /\ monitor'.frameTimes = <<>>

\* a quiet period starts with no samples, at the timestamp of the update
QuietPeriodStartsEmpty ==
    (monitor.needsQuietPeriod /\ ~monitor'.needsQuietPeriod) =>
        /\ ~hidden
        /\ monitor'.frameTimes = <<>>
        /\ monitor'.quietPeriodEndTime = now + quietPeriod

\* an event is raised over samples that span the sampling window
RaisesOverFullWindow ==
    raised' # raised =>
        /\ Len(monitor'.frameTimes) >= 2
        /\ now - monitor'.frameTimes[1] >= samplingWindow

\* while the page stays hidden neither update nor time changes the monitor
HiddenChangesNothing ==
    (hidden /\ hidden') => (monitor' = monitor /\ raised' = raised)

\* C35: the monitor starts with a quiet period asked for and no samples, and
\* asks for one when the page is shown again; the update that starts a
\* quiet period empties the samples and sets _quietPeriodEndTime to its
\* timestamp plus quietPeriod; no timestamp is recorded and no event raised
\* before that time; the samples of a started quiet period are all from its
\* end on; an event is raised only over samples spanning samplingWindow; and
\* on a hidden page update changes nothing.
C35_QuietPeriodObserved ==
    /\ monitor.needsQuietPeriod /\ monitor.frameTimes = <<>>
    /\ [](InQuietPeriodOrAfter =>
             \A i \in 1..Len(monitor.frameTimes) :
                 monitor.frameTimes[i] >= monitor.quietPeriodEndTime)
    /\ [][/\ RecordsAfterQuietPeriod
           /\ ShownAgainAsksQuietPeriod
           /\ QuietPeriodStartsEmpty
           /\ RaisesOverFullWindow
           /\ HiddenChangesNothing]_vars

\* after an event the page was hidden and shown again, an update started the
\* quiet period, and the first samples after its end are recorded
C35_Witness ==
    /\ raised # <<>>
    /\ monitor.lastFramesPerSecond = undefinedFramesPerSecond
    /\ ~hidden
    /\ InQuietPeriodOrAfter
    /\ Len(monitor.frameTimes) >= 2
    /\ now > monitor.quietPeriodEndTime

====
